---- MODULE Spec2Model ----
(***************************************************************************)
(* A model of the HST CSP engine (crates hst-core and hst-processes):      *)
(* process terms, the cursor state machines of every operator, and the     *)
(* trace engine.  Cursors are records; `perform` is a function from a      *)
(* cursor and an event to the next cursor, or to Panic when the Rust code  *)
(* panics.                                                                 *)
(***************************************************************************)
EXTENDS Integers, Sequences, FiniteSets, TLC

VARIABLES process, cursor, before, event, willing, traces, call, frames

vars == <<process, cursor, before, event, willing, traces, call, frames>>

(***************************************************************************)
(* Bounds of the model.                                                    *)
(***************************************************************************)
\* Number of distinct nameable (numbered) events.
NumEvents == 2
\* Largest number of operands of a replicated choice.
MaxBranches == 3
\* Longest trace handed to a MaximalTraces operation.
MaxTraceLen == 2
\* Number of states of a table-driven cursor.
MaxStates == 2
\* Deepest recursion of the trace traversal that is followed.
MaxDepth == 8

(***************************************************************************)
(* Events (test_support.rs TestEvent; primitives.rs tau / tick).           *)
(***************************************************************************)
tau == "tau"
tick == "tick"
NumberedEvent(n) == "E" \o ToString(n)
Nameable == {NumberedEvent(n) : n \in 0..(NumEvents - 1)}
TestEvent == {tau, tick} \cup Nameable

(***************************************************************************)
(* Values shared by all cursors.                                           *)
(***************************************************************************)
\* The outcome of a Rust panic (panic!, assert!, expect).
Panic == [kind |-> "Panic"]
\* Option::None; Some(c) is the cursor c itself.
None == [kind |-> "None"]

Range(s) == {s[i] : i \in DOMAIN s}

(***************************************************************************)
(* Process terms.                                                          *)
(***************************************************************************)
stop == [op |-> "Stop"]
skip == [op |-> "Skip"]
prefix(initial, after) == [op |-> "Prefix", initial |-> initial, after |-> after]
internal_choice(p, q) == [op |-> "InternalChoice", ps |-> <<p, q>>]
\* Variant: the collection is not checked.
replicated_internal_choice_unchecked(ps) == [op |-> "InternalChoice", ps |-> ps]
replicated_internal_choice(ps) ==
    IF Len(ps) = 0 THEN Panic ELSE [op |-> "InternalChoice", ps |-> ps]
external_choice(p, q) == [op |-> "ExternalChoice", ps |-> <<p, q>>]
replicated_external_choice(ps) == [op |-> "ExternalChoice", ps |-> ps]
sequential_composition(p, q) == [op |-> "SequentialComposition", p |-> p, q |-> q]

(***************************************************************************)
(* Root cursors.                                                           *)
(***************************************************************************)
RECURSIVE root(_)

Stop_root == [kind |-> "Stop"]

Skip_root == [kind |-> "Skip", state |-> "BeforeTick"]

Prefix_root(P) ==
    [kind |-> "Prefix", state |-> "BeforeInitial",
     initial |-> P.initial, after |-> root(P.after)]

InternalChoice_root(P) ==
    [kind |-> "InternalChoice", state |-> "BeforeTau",
     activated |-> [i \in 1..Len(P.ps) |-> TRUE],
     subcursors |-> [i \in 1..Len(P.ps) |-> root(P.ps[i])]]

ExternalChoice_root(P) ==
    [kind |-> "ExternalChoice", state |-> "Unresolved",
     subcursors |-> [i \in 1..Len(P.ps) |-> <<root(P.ps[i])>>],
     tau_count |-> 0]

SequentialComposition_root(P) ==
    [kind |-> "SequentialComposition", state |-> "BeforeTick",
     p |-> root(P.p), qs |-> <<root(P.q)>>]

root(P) ==
    CASE P.op = "ExternalChoice" -> ExternalChoice_root(P)
      [] P.op = "InternalChoice" -> InternalChoice_root(P)
      [] P.op = "Prefix" -> Prefix_root(P)
      [] P.op = "SequentialComposition" -> SequentialComposition_root(P)
      [] P.op = "Skip" -> Skip_root
      [] P.op = "Stop" -> Stop_root

(***************************************************************************)
(* The Cursor protocol: events, can_perform, perform.                      *)
(***************************************************************************)
RECURSIVE events(_), can_perform(_, _), perform(_, _)

\* ---- Stop --------------------------------------------------------------
StopCursor_events(c) == {}
StopCursor_can_perform(c, e) == FALSE
\* Variant: Stop ignores the event.
StopCursor_perform_ignores(c, e) == c
StopCursor_perform(c, e) == Panic

\* ---- Skip --------------------------------------------------------------
SkipCursor_events(c) == IF c.state = "BeforeTick" THEN {tick} ELSE {}

SkipCursor_can_perform(c, e) ==
    IF c.state = "BeforeTick" THEN e = tick ELSE FALSE

\* Variant: after the tick, a further event is ignored.
SkipCursor_perform_after_tick_ignores(c, e) ==
    IF c.state = "AfterTick" THEN c
    ELSE IF e # tick THEN Panic
    ELSE [c EXCEPT !.state = "AfterTick"]

SkipCursor_perform(c, e) ==
    IF c.state = "AfterTick" THEN Panic
    ELSE IF e # tick THEN Panic
    ELSE [c EXCEPT !.state = "AfterTick"]

\* ---- Prefix ------------------------------------------------------------
\* Variant: after the initial event the cursor offers nothing.
PrefixCursor_events_before_only(c) ==
    IF c.state = "BeforeInitial" THEN {c.initial} ELSE {}

PrefixCursor_events(c) ==
    IF c.state = "BeforeInitial" THEN {c.initial} ELSE events(c.after)

PrefixCursor_can_perform(c, e) ==
    IF c.state = "BeforeInitial" THEN e = c.initial ELSE can_perform(c.after, e)

\* Variant: before the initial event, any event moves the cursor on.
PrefixCursor_perform_any_initial(c, e) ==
    IF c.state = "AfterInitial"
    THEN LET after == perform(c.after, e)
         IN  IF after = Panic THEN Panic ELSE [c EXCEPT !.after = after]
    ELSE [c EXCEPT !.state = "AfterInitial"]

PrefixCursor_perform(c, e) ==
    IF c.state = "AfterInitial"
    THEN LET after == perform(c.after, e)
         IN  IF after = Panic THEN Panic ELSE [c EXCEPT !.after = after]
    ELSE IF e # c.initial THEN Panic
    ELSE [c EXCEPT !.state = "AfterInitial"]

\* ---- Internal choice ---------------------------------------------------
\* The indices of the subcursors that are still activated.
activated_subcursors(c) == {i \in DOMAIN c.subcursors : c.activated[i]}

\* Variant: the events of the subcursors are offered before the tau as well.
InternalChoiceCursor_events_any_state(c) ==
    UNION {events(c.subcursors[i]) : i \in activated_subcursors(c)}

\* initials() of the cursor, as the set its alphabet enumerates.
InternalChoiceCursor_events(c) ==
    IF c.state = "BeforeTau" THEN {tau}
    ELSE UNION {events(c.subcursors[i]) : i \in activated_subcursors(c)}

\* InternalChoiceAlphabet::contains on the cursor's initials().
InternalChoiceCursor_can_perform(c, e) ==
    IF c.state = "BeforeTau" THEN e = tau
    ELSE \E i \in activated_subcursors(c) : can_perform(c.subcursors[i], e)

\* Variant: a subcursor that cannot perform the event stays activated.
InternalChoiceCursor_perform_keeps_activated(c, e) ==
    IF c.state = "AfterTau"
    THEN LET moves == {i \in activated_subcursors(c) : can_perform(c.subcursors[i], e)}
         IN  IF \E i \in moves : perform(c.subcursors[i], e) = Panic
             THEN Panic
             ELSE [c EXCEPT
                     !.subcursors = [i \in DOMAIN c.subcursors |->
                                       IF i \in moves
                                       THEN perform(c.subcursors[i], e)
                                       ELSE c.subcursors[i]]]
    ELSE IF e # tau THEN Panic
    ELSE [c EXCEPT !.state = "AfterTau"]

\* Variant: every subcursor that can perform the event does, activated or
\* not, and is activated afterwards.
InternalChoiceCursor_perform_reactivates(c, e) ==
    IF c.state = "AfterTau"
    THEN LET moves == {i \in DOMAIN c.subcursors : can_perform(c.subcursors[i], e)}
         IN  IF \E i \in moves : perform(c.subcursors[i], e) = Panic
             THEN Panic
             ELSE [c EXCEPT
                     !.activated = [i \in DOMAIN c.activated |-> i \in moves],
                     !.subcursors = [i \in DOMAIN c.subcursors |->
                                       IF i \in moves
                                       THEN perform(c.subcursors[i], e)
                                       ELSE c.subcursors[i]]]
    ELSE IF e # tau THEN Panic
    ELSE [c EXCEPT !.state = "AfterTau"]

InternalChoiceCursor_perform(c, e) ==
    IF c.state = "AfterTau"
    THEN LET moves == {i \in activated_subcursors(c) : can_perform(c.subcursors[i], e)}
         IN  IF \E i \in moves : perform(c.subcursors[i], e) = Panic
             THEN Panic
             ELSE [c EXCEPT
                     !.activated = [i \in DOMAIN c.activated |-> i \in moves],
                     !.subcursors = [i \in DOMAIN c.subcursors |->
                                       IF i \in moves
                                       THEN perform(c.subcursors[i], e)
                                       ELSE c.subcursors[i]]]
    ELSE IF e # tau THEN Panic
    ELSE [c EXCEPT !.state = "AfterTau"]

\* ---- External choice ---------------------------------------------------
\* Every subprocess state that is still Some, over all branches and depths.
ExternalChoiceCursor_active(c) ==
    UNION {Range(c.subcursors[i]) : i \in DOMAIN c.subcursors} \ {None}

RECURSIVE total_depth(_, _)
\* Sum over the first n branches of taus.len() - 1.
total_depth(subcursors, n) ==
    IF n = 0 THEN 0
    ELSE (Len(subcursors[n]) - 1) + total_depth(subcursors, n - 1)

\* Variant: a branch's own tau's are counted among those of the others.
deactivate_tau_subprocesses_counts_itself(subcursors, tau_count) ==
    LET total_tau_depth == total_depth(subcursors, Len(subcursors))
    IN  [i \in DOMAIN subcursors |->
           LET taus == subcursors[i]
               remaining_tau_depth == total_tau_depth
               minimum_tau_count == tau_count - remaining_tau_depth
           IN  IF Len(taus) = 1 THEN taus
               ELSE IF remaining_tau_depth < tau_count
               THEN [k \in DOMAIN taus |->
                       IF k <= minimum_tau_count THEN None ELSE taus[k]]
               ELSE taus]

deactivate_tau_subprocesses(subcursors, tau_count) ==
    LET total_tau_depth == total_depth(subcursors, Len(subcursors))
    IN  [i \in DOMAIN subcursors |->
           LET taus == subcursors[i]
               this_tau_count == Len(taus) - 1
               remaining_tau_depth == total_tau_depth - this_tau_count
               minimum_tau_count == tau_count - remaining_tau_depth
           IN  IF Len(taus) = 1 THEN taus
               ELSE IF remaining_tau_depth < tau_count
               THEN [k \in DOMAIN taus |->
                       IF k <= minimum_tau_count THEN None ELSE taus[k]]
               ELSE taus]

\* Variant: a branch is tried when it has kept up with the tau's before the
\* previous one, and so misses the first tau.
perform_tau_when_unresolved_tries_late(c, e) ==
    LET tau_count == c.tau_count + 1
        tries(i) == Len(c.subcursors[i]) = c.tau_count
        last(i) == c.subcursors[i][Len(c.subcursors[i])]
        grows(i) == tries(i) /\ last(i) # None /\ can_perform(last(i), e)
        pushed == [i \in DOMAIN c.subcursors |->
                     IF grows(i)
                     THEN Append(c.subcursors[i], perform(last(i), e))
                     ELSE c.subcursors[i]]
    IN  IF \E i \in DOMAIN c.subcursors :
              \/ tries(i) /\ last(i) = None
              \/ grows(i) /\ perform(last(i), e) = Panic
        THEN Panic
        ELSE [c EXCEPT !.tau_count = tau_count,
                       !.subcursors = deactivate_tau_subprocesses(pushed, tau_count)]

perform_tau_when_unresolved(c, e) ==
    LET tau_count == c.tau_count + 1
        tries(i) == Len(c.subcursors[i]) = tau_count
        last(i) == c.subcursors[i][Len(c.subcursors[i])]
        grows(i) == tries(i) /\ last(i) # None /\ can_perform(last(i), e)
        pushed == [i \in DOMAIN c.subcursors |->
                     IF grows(i)
                     THEN Append(c.subcursors[i], perform(last(i), e))
                     ELSE c.subcursors[i]]
    IN  IF \E i \in DOMAIN c.subcursors :
              \/ tries(i) /\ last(i) = None
              \/ grows(i) /\ perform(last(i), e) = Panic
        THEN Panic
        ELSE [c EXCEPT !.tau_count = tau_count,
                       !.subcursors = deactivate_tau_subprocesses(pushed, tau_count)]

\* The branch states that perform_and_deactivate lets perform the event.
performers(c, e) ==
    {ik \in UNION {{<<i, k>> : k \in DOMAIN c.subcursors[i]} : i \in DOMAIN c.subcursors} :
        /\ c.subcursors[ik[1]][ik[2]] # None
        /\ can_perform(c.subcursors[ik[1]][ik[2]], e)}

\* Variant: only the first branch state that can perform the event advances.
perform_and_deactivate_first_only(c, e) ==
    LET ps == performers(c, e)
        first == CHOOSE s \in ps : \A t \in ps :
                     s[1] < t[1] \/ (s[1] = t[1] /\ s[2] <= t[2])
        moved(i, k) == ps # {} /\ <<i, k>> = first
        panics == ps # {} /\ perform(c.subcursors[first[1]][first[2]], e) = Panic
    IN  [c |-> IF panics THEN Panic
               ELSE [c EXCEPT !.subcursors =
                       [i \in DOMAIN c.subcursors |->
                          [k \in DOMAIN c.subcursors[i] |->
                             IF moved(i, k) THEN perform(c.subcursors[i][k], e)
                             ELSE None]]],
         any_performed |-> ps # {}]

\* Returns the cursor with its subcursors updated and whether any performed.
perform_and_deactivate(c, e) ==
    LET can == performers(c, e)
    IN  IF \E ik \in can : perform(c.subcursors[ik[1]][ik[2]], e) = Panic
        THEN [c |-> Panic, any_performed |-> FALSE]
        ELSE [c |-> [c EXCEPT !.subcursors =
                       [i \in DOMAIN c.subcursors |->
                          [k \in DOMAIN c.subcursors[i] |->
                             IF <<i, k>> \in can
                             THEN perform(c.subcursors[i][k], e)
                             ELSE None]]],
              any_performed |-> can # {}]

\* Variant: the choice is left unresolved by a visible event.
perform_visible_when_unresolved_stays_unresolved(c, e) ==
    perform_and_deactivate(c, e).c

perform_visible_when_unresolved(c, e) ==
    LET r == perform_and_deactivate(c, e)
    IN  IF r.c = Panic THEN Panic ELSE [r.c EXCEPT !.state = "Resolved"]

\* Variant: no panic when no surviving branch state performed the event.
perform_when_resolved_no_panic(c, e) ==
    perform_and_deactivate(c, e).c

perform_when_resolved(c, e) ==
    LET r == perform_and_deactivate(c, e)
    IN  IF r.c = Panic \/ ~r.any_performed THEN Panic ELSE r.c

\* Variant: tau is hidden from the events of the choice.
ExternalChoiceCursor_events_hides_tau(c) ==
    UNION {events(s) : s \in ExternalChoiceCursor_active(c)} \ {tau}

ExternalChoiceCursor_events(c) ==
    UNION {events(s) : s \in ExternalChoiceCursor_active(c)}

\* Variant: every active subcursor has to be able to perform the event.
ExternalChoiceCursor_can_perform_all(c, e) ==
    \A s \in ExternalChoiceCursor_active(c) : can_perform(s, e)

ExternalChoiceCursor_can_perform(c, e) ==
    \E s \in ExternalChoiceCursor_active(c) : can_perform(s, e)

ExternalChoiceCursor_perform(c, e) ==
    IF c.state = "Unresolved"
    THEN IF e = tau
         THEN perform_tau_when_unresolved(c, e)
         ELSE perform_visible_when_unresolved(c, e)
    ELSE perform_when_resolved(c, e)

\* ---- Sequential composition --------------------------------------------
\* Variant: the tick of P is shown as it is.
p_events_keeps_tick(c) == events(c.p)

p_events(c) == {IF e = tick THEN tau ELSE e : e \in events(c.p)}

\* Variant: the tick of P is performable as it is.
p_can_perform_keeps_tick(c, e) ==
    IF e = tau THEN can_perform(c.p, e) \/ can_perform(c.p, tick)
    ELSE can_perform(c.p, e)

p_can_perform(c, e) ==
    IF e = tick THEN FALSE
    ELSE IF e = tau THEN can_perform(c.p, e) \/ can_perform(c.p, tick)
    ELSE can_perform(c.p, e)

p_perform(c, e) ==
    IF e = tick THEN c
    ELSE IF e = tau
    THEN LET could_be_before == can_perform(c.p, e)
             could_be_after == can_perform(c.p, tick)
             p1 == IF could_be_before THEN perform(c.p, e) ELSE c.p
         IN  IF ~could_be_before /\ ~could_be_after
             THEN IF c.state = "BeforeTick" THEN Panic
                  ELSE [c EXCEPT !.state = "AfterTick"]
             ELSE IF p1 = Panic THEN Panic
             ELSE [c EXCEPT !.p = p1,
                            !.state = IF could_be_after
                                      THEN IF could_be_before THEN "Shrug"
                                           ELSE "AfterTick"
                                      ELSE c.state]
    ELSE IF can_perform(c.p, e)
    THEN LET p1 == perform(c.p, e)
         IN  IF p1 = Panic THEN Panic ELSE [c EXCEPT !.p = p1]
    ELSE IF c.state = "BeforeTick" THEN Panic
    ELSE [c EXCEPT !.state = "AfterTick"]

\* The Q paths that are still Some.
q_active(c) == Range(c.qs) \ {None}

q_events(c) == UNION {events(q) : q \in q_active(c)}

q_can_perform(c, e) == \E q \in q_active(c) : can_perform(q, e)

q_perform(c, e) ==
    LET moves(i) == c.qs[i] # None /\ can_perform(c.qs[i], e)
    IN  IF \E i \in DOMAIN c.qs : moves(i) /\ perform(c.qs[i], e) = Panic
        THEN Panic
        ELSE [c EXCEPT !.qs = [i \in DOMAIN c.qs |->
                                 IF moves(i) THEN perform(c.qs[i], e) ELSE None]]

\* Variant: the events of Q are shown in every state.
SequentialCompositionCursor_events_any_state(c) == p_events(c) \cup q_events(c)

SequentialCompositionCursor_events(c) ==
    CASE c.state = "BeforeTick" -> p_events(c)
      [] c.state = "AfterTick" -> q_events(c)
      [] c.state = "Shrug" -> p_events(c) \cup q_events(c)

\* Variant: the events of Q are performable in every state.
SequentialCompositionCursor_can_perform_any_state(c, e) ==
    p_can_perform(c, e) \/ q_can_perform(c, e)

SequentialCompositionCursor_can_perform(c, e) ==
    CASE c.state = "BeforeTick" -> p_can_perform(c, e)
      [] c.state = "AfterTick" -> q_can_perform(c, e)
      [] c.state = "Shrug" -> p_can_perform(c, e) \/ q_can_perform(c, e)

\* Variant: P is offered the event after the tick as well.
SequentialCompositionCursor_perform_p_after_tick(c, e) ==
    CASE c.state = "BeforeTick" -> p_perform(c, e)
      [] OTHER ->
           LET c1 == p_perform(c, e)
           IN  IF c1 = Panic THEN Panic ELSE q_perform(c1, e)

SequentialCompositionCursor_perform(c, e) ==
    CASE c.state = "BeforeTick" -> p_perform(c, e)
      [] c.state = "AfterTick" -> q_perform(c, e)
      [] c.state = "Shrug" ->
           LET c1 == p_perform(c, e)
           IN  IF c1 = Panic THEN Panic ELSE q_perform(c1, e)

\* ---- A cursor driven by a finite transition table -----------------------
\* Any other implementation of Cursor with finitely many states: state s
\* performs e and moves to table[s][e], or cannot perform e when that is 0.
\* Its transition graph may have tau-loops and other cycles.
GraphEvent == {tau, NumberedEvent(0)}

TableCursor(table, state) == [kind |-> "Table", state |-> state, table |-> table]

TableCursor_events(c) == {e \in GraphEvent : c.table[c.state][e] # 0}

TableCursor_can_perform(c, e) == e \in GraphEvent /\ c.table[c.state][e] # 0

TableCursor_perform(c, e) ==
    IF TableCursor_can_perform(c, e)
    THEN [c EXCEPT !.state = c.table[c.state][e]]
    ELSE Panic

\* ---- Prenormalization (normalization.rs) --------------------------------
\* The cursor holds a set of subcursors, closed under tau.
RECURSIVE tau_close(_, _)
\* Variant: the cursors are added as they are, without their tau-successors.
tau_close_adds_only(tau_closed, cursors) == tau_closed \cup cursors

\* Adds the cursors of the queue and all their tau-successors to tau_closed.
\* The queue is a set here: the result does not depend on its order.  A
\* panic of a subcursor is kept as the member Panic.
tau_close(tau_closed, cursors) ==
    IF cursors = {} THEN tau_closed
    ELSE LET next == CHOOSE c \in cursors : TRUE
             to_add == IF next # Panic /\ can_perform(next, tau)
                       THEN (cursors \ {next}) \cup {perform(next, tau)}
                       ELSE cursors \ {next}
         IN  tau_close(tau_closed \cup {next}, to_add)

PrenormalizationCursor_events(c) ==
    UNION {events(subcursor) : subcursor \in c.tau_closed}

PrenormalizationCursor_can_perform(c, e) ==
    \E subcursor \in c.tau_closed : can_perform(subcursor, e)

PrenormalizationCursor_perform(c, e) ==
    LET afters_of == {perform(subcursor, e) :
                        subcursor \in {m \in c.tau_closed : can_perform(m, e)}}
        closed == tau_close({}, afters_of)
    IN  IF Panic \in closed THEN Panic ELSE [c EXCEPT !.tau_closed = closed]

\* ---- The composite cursor (csp.rs CSPSigCursor) -------------------------
events(c) ==
    CASE c.kind = "ExternalChoice" -> ExternalChoiceCursor_events(c)
      [] c.kind = "InternalChoice" -> InternalChoiceCursor_events(c)
      [] c.kind = "Prefix" -> PrefixCursor_events(c)
      [] c.kind = "SequentialComposition" -> SequentialCompositionCursor_events(c)
      [] c.kind = "Skip" -> SkipCursor_events(c)
      [] c.kind = "Prenormalization" -> PrenormalizationCursor_events(c)
      [] c.kind = "Stop" -> StopCursor_events(c)
      [] c.kind = "Table" -> TableCursor_events(c)

can_perform(c, e) ==
    CASE c.kind = "ExternalChoice" -> ExternalChoiceCursor_can_perform(c, e)
      [] c.kind = "InternalChoice" -> InternalChoiceCursor_can_perform(c, e)
      [] c.kind = "Prefix" -> PrefixCursor_can_perform(c, e)
      [] c.kind = "SequentialComposition" -> SequentialCompositionCursor_can_perform(c, e)
      [] c.kind = "Skip" -> SkipCursor_can_perform(c, e)
      [] c.kind = "Prenormalization" -> PrenormalizationCursor_can_perform(c, e)
      [] c.kind = "Stop" -> StopCursor_can_perform(c, e)
      [] c.kind = "Table" -> TableCursor_can_perform(c, e)

perform(c, e) ==
    CASE c.kind = "ExternalChoice" -> ExternalChoiceCursor_perform(c, e)
      [] c.kind = "InternalChoice" -> InternalChoiceCursor_perform(c, e)
      [] c.kind = "Prefix" -> PrefixCursor_perform(c, e)
      [] c.kind = "SequentialComposition" -> SequentialCompositionCursor_perform(c, e)
      [] c.kind = "Skip" -> SkipCursor_perform(c, e)
      [] c.kind = "Prenormalization" -> PrenormalizationCursor_perform(c, e)
      [] c.kind = "Stop" -> StopCursor_perform(c, e)
      [] c.kind = "Table" -> TableCursor_perform(c, e)

\* process.rs initials(cursor): the alphabet collected into a set.
initials(c) == events(c)

\* prenormalize(p): the process whose cursor is the tau-closure of p's.
prenormalize(p) == [op |-> "Prenormalization", p |-> p]

Prenormalization_root(P) ==
    LET closed == tau_close({}, {root(P.p)})
    IN  IF Panic \in closed THEN Panic
        ELSE [kind |-> "Prenormalization", tau_closed |-> closed]

(***************************************************************************)
(* The transition-based implementation (crate hst-processes): initials of  *)
(* a process term, computed without a cursor.                              *)
(***************************************************************************)
RECURSIVE CSP_initials(_)

Stop_initials(P) == {}

Skip_initials(P) == {tick}

Prefix_initials(P) == {P.initial}

InternalChoice_initials(P) == {tau}

ExternalChoice_initials(P) ==
    UNION {CSP_initials(P.ps[i]) : i \in DOMAIN P.ps}

SequentialComposition_initials(P) ==
    LET p_initials == CSP_initials(P.p)
    IN  IF tick \in p_initials
        THEN (p_initials \ {tick}) \cup {tau}
        ELSE p_initials

CSP_initials(P) ==
    CASE P.op = "ExternalChoice" -> ExternalChoice_initials(P)
      [] P.op = "InternalChoice" -> InternalChoice_initials(P)
      [] P.op = "Prefix" -> Prefix_initials(P)
      [] P.op = "SequentialComposition" -> SequentialComposition_initials(P)
      [] P.op = "Skip" -> Skip_initials(P)
      [] P.op = "Stop" -> Stop_initials(P)

(***************************************************************************)
(* Afters (hst-core): the processes a process term can become by one       *)
(* event, in the order the iterator yields them.  Implemented for Stop,    *)
(* Skip, Prefix and external choice.                                       *)
(***************************************************************************)
RECURSIVE afters(_, _), Flatten(_)

\* flat_map: the concatenation of a sequence of sequences.
Flatten(seqs) ==
    IF Len(seqs) = 0 THEN <<>>
    ELSE Flatten(SubSeq(seqs, 1, Len(seqs) - 1)) \o seqs[Len(seqs)]

Stop_afters(P, initial) == <<>>

\* Variant: Skip has no after-process, not even for tick.
Skip_afters_never(P, initial) == <<>>

Skip_afters(P, initial) == IF initial = tick THEN <<stop>> ELSE <<>>

Prefix_afters(P, initial) == IF initial = P.initial THEN <<P.after>> ELSE <<>>

\* Variant: a tau resolves the choice like any other event.
ExternalChoice_afters_tau_resolves(P, initial) ==
    Flatten([idx \in DOMAIN P.ps |-> afters(P.ps[idx], initial)])

ExternalChoice_afters(P, initial) ==
    IF initial = tau
    THEN Flatten([idx \in DOMAIN P.ps |->
                    LET p_afters == afters(P.ps[idx], initial)
                    IN  [k \in DOMAIN p_afters |->
                           replicated_external_choice(
                               [P.ps EXCEPT ![idx] = p_afters[k]])]])
    ELSE Flatten([idx \in DOMAIN P.ps |-> afters(P.ps[idx], initial)])

afters(P, initial) ==
    CASE P.op = "ExternalChoice" -> ExternalChoice_afters(P, initial)
      [] P.op = "Prefix" -> Prefix_afters(P, initial)
      [] P.op = "Skip" -> Skip_afters(P, initial)
      [] P.op = "Stop" -> Stop_afters(P, initial)

\* transitions(&process): every initial event mapped to its after-processes.
transitions(P) == [initial \in CSP_initials(P) |-> afters(P, initial)]

(***************************************************************************)
(* The transition-based implementation (crate hst-processes): the          *)
(* transitions of a process term on a set of events, as the sequence of    *)
(* <<events, after>> pairs the iterator yields.  An event set is a set of  *)
(* events; the prefix processes of the model have a singleton set of       *)
(* initials.                                                               *)
(***************************************************************************)
RECURSIVE CSP_transitions(_, _)

Stop_transitions(P, evs) == <<>>

\* Skip performs tick and then becomes Stop.
Skip_transitions(P, evs) ==
    IF tick \in evs THEN << <<{tick}, stop>> >> ELSE <<>>

Prefix_transitions(P, evs) ==
    LET common == evs \cap Prefix_initials(P)
    IN  IF common = {} THEN <<>> ELSE << <<common, P.after>> >>

InternalChoice_transitions(P, evs) ==
    IF tau \notin evs THEN <<>>
    ELSE [i \in DOMAIN P.ps |-> <<{tau}, P.ps[i]>>]

ExternalChoice_transitions(P, evs) ==
    LET of_child(index) ==
            LET child == CSP_transitions(P.ps[index], evs)
                one(t) ==
                    LET rest == t[1] \ {tau}
                        tau_transitions ==
                            IF tau \in t[1]
                            THEN << <<{tau}, replicated_external_choice(
                                                [P.ps EXCEPT ![index] = t[2]])>> >>
                            ELSE <<>>
                        other_transitions ==
                            IF rest # {} THEN << <<rest, t[2]>> >> ELSE <<>>
                    IN  tau_transitions \o other_transitions
            IN  Flatten([k \in DOMAIN child |-> one(child[k])])
    IN  Flatten([index \in DOMAIN P.ps |-> of_child(index)])

\* Variant: the tau that starts Q is yielded when P has a tick transition.
SequentialComposition_transitions_on_tick(P, evs) ==
    LET without_tick == evs \ {tick}
        from_p == CSP_transitions(P.p, without_tick)
        other_transitions ==
            [k \in DOMAIN from_p |->
                <<from_p[k][1], sequential_composition(from_p[k][2], P.q)>>]
        tau_transitions ==
            IF tau \in without_tick
            THEN IF CSP_transitions(P.p, {tick}) # <<>>
                 THEN << <<{tau}, P.q>> >>
                 ELSE <<>>
            ELSE <<>>
    IN  other_transitions \o tau_transitions

SequentialComposition_transitions(P, evs) ==
    LET without_tick == evs \ {tick}
        from_p == CSP_transitions(P.p, without_tick)
        other_transitions ==
            [k \in DOMAIN from_p |->
                <<from_p[k][1], sequential_composition(from_p[k][2], P.q)>>]
        \* `!self.p.transitions(&tau).next().is_some()`
        tau_transitions ==
            IF tau \in without_tick
            THEN IF ~(CSP_transitions(P.p, {tau}) # <<>>)
                 THEN << <<{tau}, P.q>> >>
                 ELSE <<>>
            ELSE <<>>
    IN  other_transitions \o tau_transitions

CSP_transitions(P, evs) ==
    CASE P.op = "ExternalChoice" -> ExternalChoice_transitions(P, evs)
      [] P.op = "InternalChoice" -> InternalChoice_transitions(P, evs)
      [] P.op = "Prefix" -> Prefix_transitions(P, evs)
      [] P.op = "SequentialComposition" -> SequentialComposition_transitions(P, evs)
      [] P.op = "Skip" -> Skip_transitions(P, evs)
      [] P.op = "Stop" -> Stop_transitions(P, evs)

(***************************************************************************)
(* MaximalTraces (process.rs).  The HashSet is iterated in an unspecified  *)
(* order; the model folds in the order CHOOSE fixes.                       *)
(***************************************************************************)
MaximalTraces_new == {<<>>}

\* existing.starts_with(&trace)
starts_with(existing, trace) ==
    /\ Len(trace) <= Len(existing)
    /\ SubSeq(existing, 1, Len(trace)) = trace

\* trace.ends_with(&suffix)
ends_with(trace, suffix) ==
    /\ Len(suffix) <= Len(trace)
    /\ SubSeq(trace, Len(trace) - Len(suffix) + 1, Len(trace)) = suffix

\* Variant: a trace is added even when it is a prefix of an existing trace.
insert_without_prefix_check(self, trace) ==
    (self \ {SubSeq(trace, 1, n) : n \in 0..(Len(trace) - 1)}) \cup {trace}

\* Variant: the empty trace is never removed.
insert_keeps_empty_trace(self, trace) ==
    IF \E existing \in self : starts_with(existing, trace)
    THEN self
    ELSE (self \ {SubSeq(trace, 1, n) : n \in 1..(Len(trace) - 1)}) \cup {trace}

insert(self, trace) ==
    IF \E existing \in self : starts_with(existing, trace)
    THEN self
    ELSE (self \ {SubSeq(trace, 1, n) : n \in 0..(Len(trace) - 1)}) \cup {trace}

RECURSIVE extend(_, _)
\* Inserts every trace of an iterator into self (Add, Sum, FromIterator).
extend(self, rhs) ==
    IF rhs = {} THEN self
    ELSE LET trace == CHOOSE t \in rhs : TRUE
         IN  extend(insert(self, trace), rhs \ {trace})

MaximalTraces_add(self, rhs) == extend(self, rhs)

RECURSIVE MaximalTraces_from_iter(_)
\* FromIterator (collect) over a sequence of traces.
MaximalTraces_from_iter(iter) ==
    IF Len(iter) = 0 THEN MaximalTraces_new
    ELSE insert(MaximalTraces_from_iter(SubSeq(iter, 1, Len(iter) - 1)),
                iter[Len(iter)])

RECURSIVE MaximalTraces_sum(_)
\* Sum over a sequence of MaximalTraces values.
MaximalTraces_sum(iter) ==
    IF Len(iter) = 0 THEN MaximalTraces_new
    ELSE extend(MaximalTraces_sum(SubSeq(iter, 1, Len(iter) - 1)), iter[Len(iter)])

\* The closure handed to map, applied to one trace: it changes the Vec in
\* place with clear, truncate, pop, push or insert(0, _).
apply(f, trace) ==
    CASE f.op = "clear" -> <<>>
      [] f.op = "truncate" ->
           IF f.len < Len(trace) THEN SubSeq(trace, 1, f.len) ELSE trace
      [] f.op = "pop" ->
           IF Len(trace) = 0 THEN trace ELSE SubSeq(trace, 1, Len(trace) - 1)
      [] f.op = "push" -> Append(trace, f.element)
      [] f.op = "insert" -> <<f.element>> \o trace

\* map: every trace is changed by f and the results are collected into a
\* new MaximalTraces (the HashSet is walked in no particular order).
MaximalTraces_map(self, f) ==
    extend(MaximalTraces_new, {apply(f, trace) : trace \in self})

(***************************************************************************)
(* maximal_finite_traces (process.rs).  A panic inside the traversal is    *)
(* recorded as the trace PanicTrace, which no cursor can produce.          *)
(***************************************************************************)
PanicTrace == <<"panic">>

RECURSIVE subprocess(_, _, _, _), subprocess_loop(_, _, _, _, _)

\* Variant: a cursor that is already on the current path is not recognised.
found_cycle_never(previous_cursors, c) == FALSE

\* previous_cursors.contains(&cursor)
found_cycle(previous_cursors, c) == c \in Range(previous_cursors)

subprocess(result, c, previous_cursors, current_trace) ==
    IF found_cycle(previous_cursors, c)
    THEN insert(result, current_trace)
    ELSE IF initials(c) = {}
    THEN insert(result, current_trace)
    ELSE subprocess_loop(result, c, Append(previous_cursors, c),
                         current_trace, initials(c))

\* Variant: tau is pushed onto the current trace like any other event.
subprocess_loop_records_tau(result, c, previous_cursors, current_trace, todo) ==
    IF todo = {} THEN result
    ELSE LET initial == CHOOSE e \in todo : TRUE
             next_cursor == perform(c, initial)
             next_trace == Append(current_trace, initial)
             result1 == IF next_cursor = Panic
                        THEN result \cup {PanicTrace}
                        ELSE subprocess(result, next_cursor, previous_cursors, next_trace)
         IN  subprocess_loop(result1, c, previous_cursors, current_trace,
                             todo \ {initial})

\* The `for initial in initials` loop of subprocess.
subprocess_loop(result, c, previous_cursors, current_trace, todo) ==
    IF todo = {} THEN result
    ELSE LET initial == CHOOSE e \in todo : TRUE
             next_cursor == perform(c, initial)
             next_trace == IF initial = tau THEN current_trace
                           ELSE Append(current_trace, initial)
             result1 == IF next_cursor = Panic
                        THEN result \cup {PanicTrace}
                        ELSE subprocess(result, next_cursor, previous_cursors, next_trace)
         IN  subprocess_loop(result1, c, previous_cursors, current_trace,
                             todo \ {initial})

maximal_finite_traces(c) == subprocess(MaximalTraces_new, c, <<>>, <<>>)

RECURSIVE satisfies_trace_to_the_end(_, _)
\* Variant: an event that is not performable is skipped, and the replay goes on.
satisfies_trace_to_the_end(c, trace) ==
    IF Len(trace) = 0 THEN TRUE
    ELSE IF ~can_perform(c, Head(trace))
    THEN satisfies_trace_to_the_end(c, Tail(trace))
    ELSE IF perform(c, Head(trace)) = Panic THEN FALSE
    ELSE satisfies_trace_to_the_end(perform(c, Head(trace)), Tail(trace))

\* satisfies_trace (process.rs): linear replay of a trace.
RECURSIVE satisfies_trace(_, _)
satisfies_trace(c, trace) ==
    IF Len(trace) = 0 THEN TRUE
    ELSE IF ~can_perform(c, Head(trace)) THEN FALSE
    ELSE IF perform(c, Head(trace)) = Panic THEN FALSE
    ELSE satisfies_trace(perform(c, Head(trace)), Tail(trace))

(***************************************************************************)
(* The processes the model draws from (csp.rs proptest_support builds      *)
(* arbitrary trees from the same constructors).                            *)
(***************************************************************************)
\* The operand lists of a replicated choice: lo to MaxBranches operands.
Tuples(S, lo) == UNION {[1..n -> S] : n \in lo..MaxBranches}

Prefixes(S) == {prefix(a, x) : a \in Nameable, x \in S}

Choices(S) ==
    {replicated_internal_choice(ps) : ps \in Tuples(S, 1)}
      \cup {replicated_external_choice(ps) : ps \in Tuples(S, 0)}

Compositions(S, T) == {sequential_composition(p, q) : p \in S, q \in T}

\* Every binary operator applied to an operand of S and an operand of T.
Binary(S, T) ==
    {internal_choice(p, q) : p \in S, q \in T}
      \cup {external_choice(p, q) : p \in S, q \in T}
      \cup Compositions(S, T)

Leaves == {stop, skip}

Basics == Leaves \cup Prefixes(Leaves)

\* Replicated choices of every width over the basic processes.
Wide == Choices(Basics)

\* One operator over basic processes.
Narrow ==
    Basics \cup Binary(Basics, Basics)
      \cup {replicated_internal_choice(<<p>>) : p \in Basics}

\* One operator over leaves.
Small == Leaves \cup Binary(Leaves, Leaves)

\* Two nested operators.
Nested ==
    Binary(Narrow, Small) \cup Binary(Leaves, Narrow) \cup Prefixes(Narrow)

\* Processes that can perform two tau's in a row, and choices between them.
TauChains ==
    {internal_choice(p, l) : p \in Binary(Leaves, Leaves), l \in Leaves}
      \cup {replicated_internal_choice(<<replicated_internal_choice(<<p>>)>>) : p \in Basics}

Interleavings ==
    {external_choice(p, q) : p \in TauChains, q \in TauChains \cup Basics}
      \cup {replicated_external_choice(<<p, q, r>>) :
               p \in TauChains, q \in Small, r \in Prefixes(Leaves)}

\* Two nested operators followed by a simple process.
Sequenced == Compositions(Nested, Leaves \cup Prefixes({stop}))

Procs == Wide \cup Narrow \cup Nested \cup Interleavings \cup Sequenced

(***************************************************************************)
(* The state machine: a client takes the root cursor of a process and      *)
(* performs events on it.                                                  *)
(***************************************************************************)
Init ==
    /\ process \in Procs
    /\ cursor = root(process)
    /\ before = None
    /\ event = "none"
    /\ willing = TRUE
    /\ traces = MaximalTraces_new
    /\ call = [op |-> "new"]
    /\ frames = <<>>

\* cursor.perform(&e), for an event the cursor is willing to perform or not.
\* A client that got a panic, or performed an unwilling event, stops.
Perform(e) ==
    /\ cursor # Panic
    /\ willing
    /\ before' = cursor
    /\ event' = e
    /\ willing' = can_perform(cursor, e)
    /\ cursor' = perform(cursor, e)
    /\ UNCHANGED <<process, traces, call, frames>>

Next == \E e \in TestEvent : Perform(e)

Spec == Init /\ [][Next]_vars

TypeOK == willing \in BOOLEAN

(***************************************************************************)
(* A client of MaximalTraces: it starts from MaximalTraces::new() and      *)
(* inserts traces and adds other sets, or it builds a set with sum,        *)
(* collect or maximal_finite_traces.  `call` records the last operation    *)
(* and its operands, `traces` its result.                                  *)
(***************************************************************************)
\* The events of the traces the client hands over.
TraceEvent == {NumberedEvent(0), tick}

TraceInputs == UNION {[1..n -> TraceEvent] : n \in 0..MaxTraceLen}

\* MaximalTraces values the client has built elsewhere out of one or two traces.
TraceOperands ==
    {MaximalTraces_from_iter(iter) :
        iter \in UNION {[1..n -> TraceInputs] : n \in 0..2}}

TraceInit ==
    /\ process = stop
    /\ cursor = root(stop)
    /\ before = None
    /\ event = "none"
    /\ willing = TRUE
    /\ traces = MaximalTraces_new
    /\ call = [op |-> "new"]
    /\ frames = <<>>

\* traces.insert(trace)
Insert(trace) ==
    /\ traces' = insert(traces, trace)
    /\ call' = [op |-> "insert", self |-> traces, trace |-> trace]
    /\ UNCHANGED <<process, cursor, before, event, willing, frames>>

\* traces + rhs
Add(rhs) ==
    /\ traces' = MaximalTraces_add(traces, rhs)
    /\ call' = [op |-> "add", self |-> traces, rhs |-> rhs]
    /\ UNCHANGED <<process, cursor, before, event, willing, frames>>

\* iter.sum::<MaximalTraces<_>>()
Sum(iter) ==
    /\ traces' = MaximalTraces_sum(iter)
    /\ call' = [op |-> "sum", iter |-> iter]
    /\ UNCHANGED <<process, cursor, before, event, willing, frames>>

\* iter.collect::<MaximalTraces<_>>()
Collect(iter) ==
    /\ traces' = MaximalTraces_from_iter(iter)
    /\ call' = [op |-> "collect", iter |-> iter]
    /\ UNCHANGED <<process, cursor, before, event, willing, frames>>

\* maximal_finite_traces(p.root())
Traverse(p) ==
    /\ traces' = maximal_finite_traces(root(p))
    /\ call' = [op |-> "maximal_finite_traces", process |-> p]
    /\ UNCHANGED <<process, cursor, before, event, willing, frames>>

\* The closures the client hands to map.
MapClosures ==
    {[op |-> "clear"], [op |-> "pop"]}
      \cup {[op |-> "truncate", len |-> n] : n \in 0..MaxTraceLen}
      \cup {[op |-> o, element |-> e] : o \in {"push", "insert"}, e \in TraceEvent}

\* The sets the client goes on working with: traces over TraceEvent of
\* length up to MaxTraceLen. A set with other traces (the traces of a larger
\* process) is left as it is until the client starts over.
InBounds(set) ==
    \A trace \in set : Len(trace) <= MaxTraceLen /\ Range(trace) \subseteq TraceEvent

\* A closure that makes traces longer is used while they are short enough.
Bounded(f) ==
    f.op \in {"push", "insert"} => \A trace \in traces : Len(trace) < MaxTraceLen

\* traces.map(f)
Map(f) ==
    /\ Bounded(f)
    /\ traces' = MaximalTraces_map(traces, f)
    /\ call' = [op |-> "map", self |-> traces, f |-> f]
    /\ UNCHANGED <<process, cursor, before, event, willing, frames>>

\* MaximalTraces::new(): the client starts over with a new set.
New ==
    /\ call.op # "new"
    /\ traces' = MaximalTraces_new
    /\ call' = [op |-> "new"]
    /\ UNCHANGED <<process, cursor, before, event, willing, frames>>

\* The client has just called MaximalTraces::new().
Fresh == call.op = "new"

\* insert, + and map change the set the client holds, however it was built
\* (by new, insert, +, map, sum, collect or maximal_finite_traces). new, sum,
\* collect and maximal_finite_traces build a set of their own without looking
\* at the one the client holds: the client calls them when it starts over.
TraceNext ==
    \/ InBounds(traces) /\ \E trace \in TraceInputs : Insert(trace)
    \/ InBounds(traces) /\ \E rhs \in TraceOperands : Add(rhs)
    \/ InBounds(traces) /\ \E f \in MapClosures : Map(f)
    \/ New
    \/ Fresh /\ \E iter \in UNION {[1..n -> TraceOperands] : n \in 0..2} : Sum(iter)
    \/ Fresh /\ \E iter \in UNION {[1..n -> TraceInputs] : n \in 0..3} : Collect(iter)
    \/ Fresh /\ \E p \in Procs : Traverse(p)

TraceSpec == TraceInit /\ [][TraceNext]_vars

(***************************************************************************)
(* A client of Initials and Afters: it asks a process term built from      *)
(* Stop, Skip, Prefix and external choice for its initials or for its      *)
(* after-processes for some event.  `call` records the question and the    *)
(* answer.                                                                 *)
(***************************************************************************)
\* A prefix may name any event, tau and tick included.
AnyPrefixes(S) == {prefix(a, x) : a \in TestEvent, x \in S}

AftersBasics == Leaves \cup AnyPrefixes(Leaves)

AftersChoices ==
    {replicated_external_choice(ps) : ps \in Tuples(AftersBasics, 0)}

AftersProcs ==
    AftersBasics \cup AftersChoices
      \cup AnyPrefixes({external_choice(p, q) : p, q \in Leaves \cup Prefixes(Leaves)})
      \cup {external_choice(external_choice(p, q), r) :
               p, q \in AnyPrefixes({skip}), r \in AftersBasics}
      \cup {external_choice(prefix(tau, prefix(tau, stop)), prefix(tau, p)) :
               p \in AftersBasics}
      \cup Prefixes(Narrow)

AftersInit ==
    /\ process \in AftersProcs
    /\ cursor = root(process)
    /\ before = None
    /\ event = "none"
    /\ willing = TRUE
    /\ traces = MaximalTraces_new
    /\ frames = <<>>
    /\ call = [op |-> "new"]

\* process.initials()
AskInitials ==
    /\ call' = [op |-> "initials", initials |-> CSP_initials(process)]
    /\ UNCHANGED <<process, cursor, before, event, willing, traces, frames>>

\* process.afters(&initial)
AskAfters(initial) ==
    /\ call' = [op |-> "afters", initial |-> initial,
                afters |-> afters(process, initial)]
    /\ UNCHANGED <<process, cursor, before, event, willing, traces, frames>>

\* transitions(&process)
AskTransitions ==
    /\ call' = [op |-> "transitions", transitions |-> transitions(process)]
    /\ UNCHANGED <<process, cursor, before, event, willing, traces, frames>>

\* maximal_finite_traces(process.root())
AskTraces ==
    /\ traces' = maximal_finite_traces(root(process))
    /\ call' = [op |-> "maximal_finite_traces", process |-> process]
    /\ UNCHANGED <<process, cursor, before, event, willing, frames>>

\* The client either questions the process term or walks its root cursor.
AftersNext ==
    \/ before = None /\ AskInitials
    \/ before = None /\ \E initial \in TestEvent : AskAfters(initial)
    \/ before = None /\ AskTransitions
    \/ before = None /\ AskTraces
    \/ call.op = "new" /\ \E e \in TestEvent : Perform(e)

AftersSpec == AftersInit /\ [][AftersNext]_vars

(***************************************************************************)
(* satisfies_trace, one iteration of its loop at a time.  `call` holds the *)
(* trace, the position of the loop and the value returned ("running"       *)
(* until then); `cursor` is the cursor the function owns; `before` and     *)
(* `event` record its last call of perform.                                *)
(***************************************************************************)
ReplayTraces == UNION {[1..n -> TestEvent] : n \in 0..MaxTraceLen}

\* Compositions whose first operand can perform tau and tick at once.
Ambiguous ==
    Compositions(Binary(Leaves, {replicated_internal_choice(<<p>>) : p \in Basics}),
                 Leaves)

ReplayProcs == Narrow \cup Ambiguous

ReplayInit ==
    /\ process \in ReplayProcs
    /\ cursor = root(process)
    /\ before = None
    /\ event = "none"
    /\ willing = TRUE
    /\ traces = MaximalTraces_new
    /\ frames = <<>>
    /\ \E trace \in ReplayTraces :
          call = [op |-> "satisfies_trace", trace |-> trace, pos |-> 1,
                  result |-> "running"]

\* if !cursor.can_perform(&event) { return false; }
Refuse ==
    /\ call.op = "satisfies_trace"
    /\ call.result = "running"
    /\ call.pos <= Len(call.trace)
    /\ ~can_perform(cursor, call.trace[call.pos])
    /\ call' = [call EXCEPT !.result = "false"]
    /\ UNCHANGED <<process, cursor, before, event, willing, traces, frames>>

\* cursor.perform(&event);
Advance ==
    /\ call.op = "satisfies_trace"
    /\ call.result = "running"
    /\ call.pos <= Len(call.trace)
    /\ can_perform(cursor, call.trace[call.pos])
    /\ perform(cursor, call.trace[call.pos]) # Panic
    /\ before' = cursor
    /\ event' = call.trace[call.pos]
    /\ cursor' = perform(cursor, call.trace[call.pos])
    /\ call' = [call EXCEPT !.pos = @ + 1]
    /\ UNCHANGED <<process, willing, traces, frames>>

\* The loop is over: true.
Satisfied ==
    /\ call.op = "satisfies_trace"
    /\ call.result = "running"
    /\ call.pos > Len(call.trace)
    /\ call' = [call EXCEPT !.result = "true"]
    /\ UNCHANGED <<process, cursor, before, event, willing, traces, frames>>

ReplayNext == Refuse \/ Advance \/ Satisfied

ReplaySpec == ReplayInit /\ [][ReplayNext]_vars

(***************************************************************************)
(* maximal_finite_traces, one step of the depth-first traversal at a time. *)
(* `frames` is the recursion of subprocess: each frame holds its cursor    *)
(* (the frames' cursors are previous_cursors), the initials its loop has   *)
(* not followed yet and current_trace on entry.  `call` is the call of     *)
(* subprocess about to run, `traces` is result.                            *)
(***************************************************************************)
Tables == [1..MaxStates -> [GraphEvent -> 0..MaxStates]]

\* The cursors the traversal starts from.
StartCursors ==
    {TableCursor(table, 1) : table \in Tables} \cup {root(p) : p \in Narrow}

TraversalInit ==
    /\ process = stop
    /\ cursor \in StartCursors
    /\ before = None
    /\ event = "none"
    /\ willing = TRUE
    /\ traces = MaximalTraces_new
    /\ frames = <<>>
    /\ call = [op |-> "subprocess", cursor |-> cursor, current_trace |-> <<>>]

previous_cursors == [i \in DOMAIN frames |-> frames[i].cursor]

\* subprocess finds a cycle or a cursor without initials: the trace ends.
EndOfTrace ==
    /\ call.op = "subprocess"
    /\ \/ found_cycle(previous_cursors, call.cursor)
       \/ initials(call.cursor) = {}
    /\ traces' = insert(traces, call.current_trace)
    /\ call' = [op |-> IF frames = <<>> THEN "returned" ELSE "loop"]
    /\ UNCHANGED <<process, cursor, before, event, willing, frames>>

\* subprocess pushes its cursor and starts the loop over its initials.
Descend ==
    /\ call.op = "subprocess"
    /\ ~found_cycle(previous_cursors, call.cursor)
    /\ initials(call.cursor) # {}
    /\ Len(frames) < MaxDepth
    /\ frames' = Append(frames, [cursor |-> call.cursor,
                                 todo |-> initials(call.cursor),
                                 current_trace |-> call.current_trace])
    /\ call' = [op |-> "loop"]
    /\ UNCHANGED <<process, cursor, before, event, willing, traces>>

\* One iteration of `for initial in initials`, in the order the HashSet gives.
Follow(initial) ==
    /\ call.op = "loop"
    /\ frames # <<>>
    /\ LET top == frames[Len(frames)]
       IN  /\ initial \in top.todo
           /\ perform(top.cursor, initial) # Panic
           /\ frames' = [frames EXCEPT ![Len(frames)].todo = @ \ {initial}]
           /\ call' = [op |-> "subprocess",
                       cursor |-> perform(top.cursor, initial),
                       current_trace |->
                           IF initial = tau THEN top.current_trace
                           ELSE Append(top.current_trace, initial)]
    /\ UNCHANGED <<process, cursor, before, event, willing, traces>>

\* The loop is over: subprocess pops its cursor and returns.
Return ==
    /\ call.op = "loop"
    /\ frames # <<>>
    /\ frames[Len(frames)].todo = {}
    /\ frames' = SubSeq(frames, 1, Len(frames) - 1)
    /\ call' = [op |-> IF Len(frames) = 1 THEN "returned" ELSE "loop"]
    /\ UNCHANGED <<process, cursor, before, event, willing, traces>>

TraversalNext ==
    \/ EndOfTrace
    \/ Descend
    \/ \E initial \in TestEvent : Follow(initial)
    \/ Return

\* The traversal is sequential code: it takes its next step whenever it has one.
TraversalSpec ==
    TraversalInit /\ [][TraversalNext]_vars /\ WF_vars(TraversalNext)

(***************************************************************************)
(* Possibilities (possibilities.rs): a set of possible current states,     *)
(* each given by the indices of some subcursors.  Indices are 1-based      *)
(* here and 0-based in the code.  next_possibilities is empty between two  *)
(* calls (drain empties the old vector before the swap) and is left out.   *)
(***************************************************************************)
Possibilities_new(subcursors) ==
    [kind |-> "Possibilities",
     subcursors |-> subcursors,
     activated |-> [i \in DOMAIN subcursors |-> TRUE],
     possibilities |-> <<[i \in 1..Len(subcursors) |-> i]>>]

\* The indices of the subcursors that are still activated.
Possibilities_activated_subcursors(self) ==
    {i \in DOMAIN self.subcursors : self.activated[i]}

Possibilities_events(self) ==
    UNION {events(self.subcursors[i]) : i \in Possibilities_activated_subcursors(self)}

Possibilities_can_perform(self, e) ==
    \E i \in Possibilities_activated_subcursors(self) : can_perform(self.subcursors[i], e)

\* The n-th smallest element of a set of numbers.
Nth(S, n) == CHOOSE x \in S : Cardinality({y \in S : y <= x}) = n

\* The elements of a set of numbers in increasing order.
Ascending(S) == [n \in 1..Cardinality(S) |-> Nth(S, n)]

\* Variant: the index of a cloned subcursor is taken after the push.
perform_piecewise_index_after_push(self, e) ==
    LET subcursor_count == Len(self.subcursors)
        eligible == {idx \in 1..subcursor_count :
                        self.activated[idx] /\ can_perform(self.subcursors[idx], e)}
        hits(possibility) == {k \in DOMAIN possibility : possibility[k] \in eligible}
        eligible_per_possibility(n) == Cardinality(hits(self.possibilities[n]))
        splittable ==
            {idx \in eligible :
                \E n \in DOMAIN self.possibilities :
                    /\ eligible_per_possibility(n) > 1
                    /\ idx \in Range(self.possibilities[n])}
        pushed == Ascending(splittable)
        rank(idx) == Cardinality({j \in splittable : j <= idx})
        eligible_afters(idx) ==
            IF idx \in splittable THEN subcursor_count + rank(idx) + 1
            ELSE IF idx \in eligible THEN idx ELSE 0
        subcursors ==
            [idx \in 1..(subcursor_count + Len(pushed)) |->
                IF idx > subcursor_count
                THEN perform(self.subcursors[pushed[idx - subcursor_count]], e)
                ELSE IF idx \in eligible \ splittable
                THEN perform(self.subcursors[idx], e)
                ELSE self.subcursors[idx]]
        activated ==
            [idx \in 1..(subcursor_count + Len(pushed)) |->
                IF idx > subcursor_count THEN TRUE ELSE self.activated[idx]]
        split(possibility) ==
            LET ks == Ascending(hits(possibility))
            IN  [m \in DOMAIN ks |->
                    [possibility EXCEPT ![ks[m]] = eligible_afters(possibility[ks[m]])]]
    IN  IF Panic \in Range(subcursors) THEN Panic
        ELSE [self EXCEPT
                !.subcursors = subcursors,
                !.activated = activated,
                !.possibilities =
                    Flatten([n \in DOMAIN self.possibilities |->
                                split(self.possibilities[n])])]

\* Variant: every eligible subprocess performs the event in place, none is
\* cloned.
perform_piecewise_in_place(self, e) ==
    LET eligible == {idx \in DOMAIN self.subcursors :
                        self.activated[idx] /\ can_perform(self.subcursors[idx], e)}
        hits(possibility) == {k \in DOMAIN possibility : possibility[k] \in eligible}
        subcursors ==
            [idx \in DOMAIN self.subcursors |->
                IF idx \in eligible THEN perform(self.subcursors[idx], e)
                ELSE self.subcursors[idx]]
        split(possibility) ==
            [m \in 1..Cardinality(hits(possibility)) |-> possibility]
    IN  IF Panic \in Range(subcursors) THEN Panic
        ELSE [self EXCEPT
                !.subcursors = subcursors,
                !.possibilities =
                    Flatten([n \in DOMAIN self.possibilities |->
                                split(self.possibilities[n])])]

perform_piecewise(self, e) ==
    LET subcursor_count == Len(self.subcursors)
        \* the still-active subprocesses that can perform the event
        eligible == {idx \in 1..subcursor_count :
                        self.activated[idx] /\ can_perform(self.subcursors[idx], e)}
        \* the positions of a possibility that hold an eligible subprocess
        hits(possibility) == {k \in DOMAIN possibility : possibility[k] \in eligible}
        eligible_per_possibility(n) == Cardinality(hits(self.possibilities[n]))
        splittable ==
            {idx \in eligible :
                \E n \in DOMAIN self.possibilities :
                    /\ eligible_per_possibility(n) > 1
                    /\ idx \in Range(self.possibilities[n])}
        \* the splittable subprocesses in the order their clones are pushed
        pushed == Ascending(splittable)
        rank(idx) == Cardinality({j \in splittable : j <= idx})
        eligible_afters(idx) ==
            IF idx \in splittable THEN subcursor_count + rank(idx)
            ELSE IF idx \in eligible THEN idx ELSE 0
        subcursors ==
            [idx \in 1..(subcursor_count + Len(pushed)) |->
                IF idx > subcursor_count
                THEN perform(self.subcursors[pushed[idx - subcursor_count]], e)
                ELSE IF idx \in eligible \ splittable
                THEN perform(self.subcursors[idx], e)
                ELSE self.subcursors[idx]]
        activated ==
            [idx \in 1..(subcursor_count + Len(pushed)) |->
                IF idx > subcursor_count THEN TRUE ELSE self.activated[idx]]
        \* one copy of the possibility for each of its eligible subprocesses,
        \* none for a possibility without any
        split(possibility) ==
            LET ks == Ascending(hits(possibility))
            IN  [m \in DOMAIN ks |->
                    [possibility EXCEPT ![ks[m]] = eligible_afters(possibility[ks[m]])]]
    IN  IF Panic \in Range(subcursors) THEN Panic
        ELSE [self EXCEPT
                !.subcursors = subcursors,
                !.activated = activated,
                !.possibilities =
                    Flatten([n \in DOMAIN self.possibilities |->
                                split(self.possibilities[n])])]

\* Variant: a subprocess that cannot perform the event stays activated.
perform_all_keeps_activated(self, e) ==
    LET moves(idx) == self.activated[idx] /\ can_perform(self.subcursors[idx], e)
        subcursors == [idx \in DOMAIN self.subcursors |->
                         IF moves(idx) THEN perform(self.subcursors[idx], e)
                         ELSE self.subcursors[idx]]
    IN  IF Panic \in Range(subcursors) THEN Panic
        ELSE [self EXCEPT !.subcursors = subcursors]

perform_all(self, e) ==
    LET moves(idx) == self.activated[idx] /\ can_perform(self.subcursors[idx], e)
        subcursors == [idx \in DOMAIN self.subcursors |->
                         IF moves(idx) THEN perform(self.subcursors[idx], e)
                         ELSE self.subcursors[idx]]
    IN  IF Panic \in Range(subcursors) THEN Panic
        ELSE [self EXCEPT
                !.subcursors = subcursors,
                !.activated = [idx \in DOMAIN self.activated |-> moves(idx)]]

(***************************************************************************)
(* A client of Possibilities: it builds one from up to MaxSubcursors root  *)
(* cursors and makes up to MaxCalls calls of perform_all and               *)
(* perform_piecewise.  `cursor` holds the Possibilities value, `before`    *)
(* the value before the last call, `call` the last call and what has been  *)
(* called so far.                                                          *)
(***************************************************************************)
MaxSubcursors == 2
MaxCalls == 3

\* The events of the calls: two numbered events and tick.
PossibilitiesEvent == {NumberedEvent(0), NumberedEvent(1), tick}

\* The subprocesses: they perform zero, one or two events in a row.
PossibilitiesProcs ==
    LET names == PossibilitiesEvent \ {tick}
        then(S) == {prefix(a, x) : a \in names, x \in S}
    IN  Leaves \cup then(Leaves) \cup then(then({stop}))

PossibilitiesInit ==
    /\ process = stop
    /\ \E ps \in UNION {[1..n -> PossibilitiesProcs] : n \in 0..MaxSubcursors} :
          cursor = Possibilities_new([i \in DOMAIN ps |-> root(ps[i])])
    /\ before = None
    /\ event = "none"
    /\ willing = TRUE
    /\ traces = MaximalTraces_new
    /\ frames = <<>>
    /\ call = [op |-> "new", count |-> 0, all |-> FALSE]

PerformAll(e) ==
    /\ before' = cursor
    /\ event' = e
    /\ willing' = Possibilities_can_perform(cursor, e)
    /\ cursor' = perform_all(cursor, e)
    /\ call' = [op |-> "perform_all", count |-> call.count + 1, all |-> TRUE]
    /\ UNCHANGED <<process, traces, frames>>

PerformPiecewise(e) ==
    /\ before' = cursor
    /\ event' = e
    /\ willing' = Possibilities_can_perform(cursor, e)
    /\ cursor' = perform_piecewise(cursor, e)
    /\ call' = [op |-> "perform_piecewise", count |-> call.count + 1, all |-> call.all]
    /\ UNCHANGED <<process, traces, frames>>

PossibilitiesNext ==
    \/ call.count < MaxCalls /\ \E e \in PossibilitiesEvent : PerformAll(e)
    \/ call.count < MaxCalls /\ \E e \in PossibilitiesEvent : PerformPiecewise(e)

PossibilitiesSpec == PossibilitiesInit /\ [][PossibilitiesNext]_vars

(***************************************************************************)
(* The labelled transition system the operators are documented to have     *)
(* ("Operational semantics for ..." in each operator's file): the          *)
(* transitions of a process term as a set of <<event, after>> pairs.       *)
(***************************************************************************)
RECURSIVE rules(_)

\* Stop performs no actions.
Stop_rules(P) == {}

\* Skip performs tick and then becomes Stop.
Skip_rules(P) == {<<tick, stop>>}

\* 1) a -> P -a-> P
Prefix_rules(P) == {<<P.initial, P.after>>}

\* 1) |~| Ps -tau-> P, for P in Ps
InternalChoice_rules(P) == {<<tau, P.ps[i]>> : i \in DOMAIN P.ps}

\* 1) [] Ps -tau-> [] (Ps \ {P} + {P'}) when P -tau-> P'
\* 2) [] Ps -a-> P' when P -a-> P' and a is not tau
ExternalChoice_rules(P) ==
    UNION {{IF t[1] = tau
            THEN <<tau, replicated_external_choice([P.ps EXCEPT ![i] = t[2]])>>
            ELSE t : t \in rules(P.ps[i])} : i \in DOMAIN P.ps}

\* 1) P;Q -a-> P';Q when P -a-> P' and a is not tick
\* 2) P;Q -tau-> Q when P -tick-> P'
SequentialComposition_rules(P) ==
    {IF t[1] = tick
     THEN <<tau, P.q>>
     ELSE <<t[1], sequential_composition(t[2], P.q)>> : t \in rules(P.p)}

rules(P) ==
    CASE P.op = "ExternalChoice" -> ExternalChoice_rules(P)
      [] P.op = "InternalChoice" -> InternalChoice_rules(P)
      [] P.op = "Prefix" -> Prefix_rules(P)
      [] P.op = "SequentialComposition" -> SequentialComposition_rules(P)
      [] P.op = "Skip" -> Skip_rules(P)
      [] P.op = "Stop" -> Stop_rules(P)

\* The events that label a transition of some process of the set Ps.
rules_initials(Ps) == UNION {{t[1] : t \in rules(P)} : P \in Ps}

\* The processes reached from a process of Ps by one transition labelled e.
rules_afters(Ps, e) == UNION {{t[2] : t \in {u \in rules(P) : u[1] = e}} : P \in Ps}

\* The processes reached from P along a path labelled by the trace.
RECURSIVE rules_after_trace(_, _)
rules_after_trace(P, trace) ==
    IF Len(trace) = 0 THEN {P}
    ELSE rules_afters(rules_after_trace(P, SubSeq(trace, 1, Len(trace) - 1)),
                      trace[Len(trace)])

(***************************************************************************)
(* A client of the replicated constructors: it builds a choice from a      *)
(* collection of zero to MaxBranches processes and takes its root cursor.  *)
(* A constructor that panics produces no process and no cursor.            *)
(***************************************************************************)
BuildInit ==
    /\ process = stop
    /\ cursor = root(stop)
    /\ before = None
    /\ event = "none"
    /\ willing = TRUE
    /\ traces = MaximalTraces_new
    /\ frames = <<>>
    /\ call = [op |-> "new"]

\* replicated_internal_choice(ps), then root()
BuildInternal(ps) ==
    /\ call' = [op |-> "replicated_internal_choice", ps |-> ps]
    /\ process' = replicated_internal_choice(ps)
    /\ cursor' = IF process' = Panic THEN Panic ELSE root(process')
    /\ UNCHANGED <<before, event, willing, traces, frames>>

\* replicated_external_choice(ps), then root()
BuildExternal(ps) ==
    /\ call' = [op |-> "replicated_external_choice", ps |-> ps]
    /\ process' = replicated_external_choice(ps)
    /\ cursor' = IF process' = Panic THEN Panic ELSE root(process')
    /\ UNCHANGED <<before, event, willing, traces, frames>>

BuildNext ==
    \/ call.op = "new" /\ \E ps \in Tuples(Basics, 0) : BuildInternal(ps)
    \/ call.op = "new" /\ \E ps \in Tuples(Basics, 0) : BuildExternal(ps)

BuildSpec == BuildInit /\ [][BuildNext]_vars

(***************************************************************************)
(* A client of the transition-based implementation: it asks a process for  *)
(* its transitions on a set of events and follows one of them.  `process`  *)
(* is the current process, `call` the last question and its answer.        *)
(***************************************************************************)
TransitionsProcs ==
    Narrow \cup Compositions(Narrow \cup Binary(Leaves, Small), Leaves)

TransitionsInit ==
    /\ process \in TransitionsProcs
    /\ cursor = None
    /\ before = None
    /\ event = "none"
    /\ willing = TRUE
    /\ traces = MaximalTraces_new
    /\ frames = <<>>
    /\ call = [op |-> "new"]

\* process.transitions(&events)
Transitions(evs) ==
    /\ call' = [op |-> "transitions", events |-> evs,
                transitions |-> CSP_transitions(process, evs)]
    /\ UNCHANGED <<process, cursor, before, event, willing, traces, frames>>

\* The client takes the k-th transition it was given.
FollowTransition(k) ==
    /\ call.op = "transitions"
    /\ k \in DOMAIN call.transitions
    /\ process' = call.transitions[k][2]
    /\ call' = [op |-> "new"]
    /\ UNCHANGED <<cursor, before, event, willing, traces, frames>>

TransitionsNext ==
    \/ call.op = "new" /\ \E evs \in SUBSET TestEvent : Transitions(evs)
    \/ \E k \in 1..(2 * MaxBranches) : FollowTransition(k)

TransitionsSpec == TransitionsInit /\ [][TransitionsNext]_vars

(***************************************************************************)
(* A client of prenormalize: it prenormalizes a process and either asks    *)
(* for the maximal finite traces of the prenormalized root or walks it.    *)
(* `cursor` is the prenormalized cursor, `traces` the answer.              *)
(***************************************************************************)
\* The processes that are prenormalized: one or two nested operators, and
\* the processes with two tau's in a row.
PrenormalizeProcs == Narrow \cup Nested \cup TauChains \cup Interleavings

PrenormalizeInit ==
    /\ process \in PrenormalizeProcs
    /\ cursor = Prenormalization_root(prenormalize(process))
    /\ before = None
    /\ event = "none"
    /\ willing = TRUE
    /\ traces = MaximalTraces_new
    /\ frames = <<>>
    /\ call = [op |-> "new"]

\* maximal_finite_traces(prenormalize(p).root())
PrenormalizedTraces ==
    /\ traces' = maximal_finite_traces(cursor)
    /\ call' = [op |-> "maximal_finite_traces", process |-> prenormalize(process)]
    /\ UNCHANGED <<process, cursor, before, event, willing, frames>>

PrenormalizeNext ==
    \/ before = None /\ call.op = "new" /\ PrenormalizedTraces
    \/ call.op = "new" /\ \E e \in TestEvent : Perform(e)

PrenormalizeSpec == PrenormalizeInit /\ [][PrenormalizeNext]_vars

(***************************************************************************)
(* A client of MaximalTraces that remembers what it has put into its set:  *)
(* `traces` is the set, `call` the last call together with `inserted`, the *)
(* traces handed over so far, whether one by one or inside another set.    *)
(***************************************************************************)
OrderInputs == UNION {[1..n -> TraceEvent] : n \in 0..2}

\* MaximalTraces values built elsewhere out of up to two traces.
OrderOperands ==
    {MaximalTraces_from_iter(iter) :
        iter \in UNION {[1..n -> OrderInputs] : n \in 0..2}}

OrderInit ==
    /\ process = stop
    /\ cursor = root(stop)
    /\ before = None
    /\ event = "none"
    /\ willing = TRUE
    /\ traces = MaximalTraces_new
    /\ frames = <<>>
    /\ call = [op |-> "new", inserted |-> {}]

\* traces.insert(trace)
InsertOne(trace) ==
    /\ traces' = insert(traces, trace)
    /\ call' = [op |-> "insert", inserted |-> call.inserted \cup {trace},
                self |-> traces, trace |-> trace]
    /\ UNCHANGED <<process, cursor, before, event, willing, frames>>

\* traces + rhs
AddSet(rhs) ==
    /\ traces' = MaximalTraces_add(traces, rhs)
    /\ call' = [op |-> "add", inserted |-> call.inserted \cup rhs,
                self |-> traces, rhs |-> rhs]
    /\ UNCHANGED <<process, cursor, before, event, willing, frames>>

\* iter.sum::<MaximalTraces<_>>()
SumSets(iter) ==
    /\ traces' = MaximalTraces_sum(iter)
    /\ call' = [op |-> "sum", inserted |-> UNION Range(iter), iter |-> iter]
    /\ UNCHANGED <<process, cursor, before, event, willing, frames>>

OrderNext ==
    \/ call.op # "sum" /\ \E trace \in OrderInputs : InsertOne(trace)
    \/ call.op # "sum" /\ \E rhs \in OrderOperands : AddSet(rhs)
    \/ call.op = "new" /\ \E iter \in [1..3 -> OrderOperands] : SumSets(iter)

OrderSpec == OrderInit /\ [][OrderNext]_vars

(***************************************************************************)
(* Properties of the cursors.                                              *)
(***************************************************************************)
\* The cursor is the root of `process`: nothing has been performed yet.
AtRoot == before = None

\* The positions of the branch states of an external-choice cursor.
Slots(c) ==
    UNION {{<<i, k>> : k \in DOMAIN c.subcursors[i]} : i \in DOMAIN c.subcursors}

At(c, s) == c.subcursors[s[1]][s[2]]

\* What perform_and_deactivate leaves in a position of `was` after event e.
Survivor(was, s, e) ==
    IF At(was, s) # None /\ can_perform(At(was, s), e)
    THEN perform(At(was, s), e)
    ELSE None

\* C1: in every reachable cursor state, can_perform(e) is true exactly when
\* e is one of the events (the alphabet) the cursor reports.
C1_CanPerformIffInEvents ==
    cursor # Panic =>
        \A e \in TestEvent : can_perform(cursor, e) <=> e \in initials(cursor)

\* A sequential composition in the Shrug state whose P can tick: tau is
\* offered in P's name, tick is not.
C1_Witness ==
    /\ cursor.kind = "SequentialComposition"
    /\ cursor.state = "Shrug"
    /\ can_perform(cursor.p, tick)
    /\ can_perform(cursor, tau)
    /\ tau \in initials(cursor)

\* C2: performing an event the cursor cannot perform panics, whatever the
\* cursor's type.
C2_UnwillingPerformPanics ==
    (before # None /\ ~willing) => cursor = Panic

\* C3: performing an event that can_perform accepts never panics: the
\* assertions and expects inside perform are not reached.
C3_WillingPerformNeverPanics ==
    (before # None /\ willing) => cursor # Panic

\* A sequential composition in the Shrug state performs an event that only Q
\* can perform: p_perform takes its last branch, whose assertion holds.
C3_Witness ==
    /\ willing
    /\ before.kind = "SequentialComposition"
    /\ before.state = "Shrug"
    /\ ~p_can_perform(before, event)
    /\ q_can_perform(before, event)
    /\ cursor # Panic
    /\ cursor.state = "AfterTick"

\* C4: when an unresolved external choice performs a visible event e, it
\* becomes resolved; every active branch state that can perform e performs it
\* and stays, every other branch state is eliminated; several may survive.
C4_VisibleEventResolves ==
    (before.kind = "ExternalChoice" /\ before.state = "Unresolved" /\ event # tau) =>
        /\ cursor # Panic
        /\ cursor.kind = "ExternalChoice"
        /\ cursor.state = "Resolved"
        /\ cursor.tau_count = before.tau_count
        /\ Slots(cursor) = Slots(before)
        /\ \A s \in Slots(before) : At(cursor, s) = Survivor(before, s, event)

\* A visible event after which two branches survive and a third is eliminated.
C4_Witness ==
    /\ before.kind = "ExternalChoice"
    /\ before.state = "Unresolved"
    /\ event # tau
    /\ willing
    /\ cursor # Panic
    /\ \E s, t \in Slots(cursor) :
          /\ s[1] # t[1]
          /\ At(cursor, s) # None
          /\ At(cursor, t) # None
    /\ \E s \in Slots(cursor) : At(before, s) # None /\ At(cursor, s) = None

\* C5: a resolved external choice never becomes unresolved again.  It can
\* perform e exactly when a surviving branch state can, its events are the
\* union of the survivors' events, and perform(e) advances exactly the
\* survivors that can perform e and eliminates the others; when no survivor
\* can perform e, perform(e) panics.
C5_ResolvedStaysResolved ==
    /\ (before.kind = "ExternalChoice" /\ before.state = "Resolved") =>
          IF \E s \in Slots(before) :
                At(before, s) # None /\ can_perform(At(before, s), event)
          THEN /\ cursor # Panic
               /\ cursor.kind = "ExternalChoice"
               /\ cursor.state = "Resolved"
               /\ Slots(cursor) = Slots(before)
               /\ \A s \in Slots(before) : At(cursor, s) = Survivor(before, s, event)
          ELSE cursor = Panic
    /\ (cursor.kind = "ExternalChoice" /\ cursor.state = "Resolved") =>
          /\ events(cursor) =
                UNION {events(At(cursor, s)) :
                         s \in {t \in Slots(cursor) : At(cursor, t) # None}}
          /\ \A e \in TestEvent :
                can_perform(cursor, e) <=>
                    \E s \in Slots(cursor) :
                        At(cursor, s) # None /\ can_perform(At(cursor, s), e)

\* A resolved choice performs an event that one survivor performs and that
\* eliminates another survivor.
C5_Witness ==
    /\ before.kind = "ExternalChoice"
    /\ before.state = "Resolved"
    /\ willing
    /\ cursor # Panic
    /\ \E s \in Slots(cursor) : At(before, s) # None /\ At(cursor, s) = None
    /\ \E s \in Slots(cursor) : At(cursor, s) # None

\* The events a live Q path of a sequential composition can perform.
QOffers(c, e) ==
    /\ c.state \in {"Shrug", "AfterTick"}
    /\ \E q \in q_active(c) : can_perform(q, e)

\* C6 (as stated): tick is never among the events of, nor performable by, a
\* sequential-composition cursor, in any reachable state.
C6_TickNeverVisible ==
    (cursor.kind = "SequentialComposition" /\ willing) =>
        /\ ~can_perform(cursor, tick)
        /\ tick \notin initials(cursor)

\* C6 (amended): the tick of P is never visible.  A sequential-composition
\* cursor offers tick exactly when it is past P's tick (Shrug or AfterTick)
\* and a live Q path can perform tick; before P's tick it never does, and a
\* tick P can perform is offered as tau.
C6_TickOnlyFromQ ==
    cursor.kind = "SequentialComposition" =>
        /\ can_perform(cursor, tick) <=> QOffers(cursor, tick)
        /\ tick \in initials(cursor) <=> QOffers(cursor, tick)
        /\ (cursor.state # "AfterTick" /\ can_perform(cursor.p, tick)) =>
              /\ can_perform(cursor, tau)
              /\ tau \in initials(cursor)

\* P can tick, no Q path can, and the composition does not offer tick.
C6_Witness ==
    /\ cursor.kind = "SequentialComposition"
    /\ before # None
    /\ willing
    /\ cursor.state # "AfterTick"
    /\ can_perform(cursor.p, tick)
    /\ ~QOffers(cursor, tick)
    /\ ~can_perform(cursor, tick)

\* P's initials with tick replaced by tau.
TickAsTau(S) == IF tick \in S THEN (S \ {tick}) \cup {tau} ELSE S

\* C7: the initials of the root of P ; Q are the initials of P, with tick
\* replaced by tau when P can tick; Q contributes nothing at the root.
C7_RootInitialsOfSequence ==
    (AtRoot /\ process.op = "SequentialComposition") =>
        /\ initials(cursor) = TickAsTau(initials(root(process.p)))
        /\ CSP_initials(process) = TickAsTau(CSP_initials(process.p))

\* P can tick and Q has an initial event that P does not have.
C7_Witness ==
    /\ AtRoot
    /\ process.op = "SequentialComposition"
    /\ tick \in initials(root(process.p))
    /\ initials(root(process.q)) \ TickAsTau(initials(root(process.p))) # {}
    /\ tau \in initials(cursor)

\* The expected maximal traces of P ; Q: every maximal trace of P that does
\* not end in tick, and every maximal trace of P that ends in tick with the
\* tick removed, alone and followed by each maximal trace of Q.
RECURSIVE seq_expected(_, _, _)
seq_expected(acc, ptraces, qtraces) ==
    IF ptraces = {} THEN acc
    ELSE LET t == CHOOSE x \in ptraces : TRUE
             s == SubSeq(t, 1, Len(t) - 1)
             acc1 == IF ends_with(t, <<tick>>)
                     THEN extend(insert(acc, s), {s \o q : q \in qtraces})
                     ELSE insert(acc, t)
         IN  seq_expected(acc1, ptraces \ {t}, qtraces)

\* C8: the maximal traces of P ; Q are the expected ones for every P and Q.
C8_TracesOfSequence ==
    (AtRoot /\ process.op = "SequentialComposition") =>
        maximal_finite_traces(cursor) =
            seq_expected(MaximalTraces_new,
                         maximal_finite_traces(root(process.p)),
                         maximal_finite_traces(root(process.q)))

\* C9: the maximal traces of a replicated external choice are the sum of the
\* maximal traces of its branches.
C9_TracesOfExternalChoice ==
    (AtRoot /\ process.op = "ExternalChoice") =>
        maximal_finite_traces(cursor) =
            MaximalTraces_sum([i \in DOMAIN process.ps |->
                                 maximal_finite_traces(root(process.ps[i]))])

\* Three branches, one of which starts with a tau, with two different
\* non-empty maximal traces.
C9_Witness ==
    /\ AtRoot
    /\ process.op = "ExternalChoice"
    /\ Len(process.ps) >= 3
    /\ tau \in initials(cursor)
    /\ \E t, u \in maximal_finite_traces(cursor) :
          t # u /\ Len(t) > 0 /\ Len(u) > 0

\* C10: the initials of the root of an external choice are the union of the
\* initials of its branches, tau included.
C10_RootInitialsOfExternalChoice ==
    (AtRoot /\ process.op = "ExternalChoice") =>
        /\ initials(cursor) =
              UNION {initials(root(process.ps[i])) : i \in DOMAIN process.ps}
        /\ CSP_initials(process) =
              UNION {CSP_initials(process.ps[i]) : i \in DOMAIN process.ps}
        /\ cursor.state = "Unresolved"

\* Branches with different initials, tau among them.
C10_Witness ==
    /\ AtRoot
    /\ process.op = "ExternalChoice"
    /\ tau \in initials(cursor)
    /\ \E i, j \in DOMAIN process.ps :
          /\ initials(root(process.ps[i])) \ initials(root(process.ps[j])) # {}
          /\ initials(root(process.ps[j])) \ initials(root(process.ps[i])) # {}

\* C11: the root of a replicated internal choice offers tau and nothing else;
\* after that tau the cursor is AfterTau and offers exactly the events some
\* branch offers at its root.
C11_InitialsOfInternalChoice ==
    /\ (AtRoot /\ process.op = "InternalChoice") =>
          /\ cursor.state = "BeforeTau"
          /\ initials(cursor) = {tau}
          /\ \A e \in TestEvent : can_perform(cursor, e) <=> e = tau
    /\ (before = root(process) /\ process.op = "InternalChoice" /\ event = tau) =>
          /\ cursor # Panic
          /\ cursor.state = "AfterTau"
          /\ \A e \in TestEvent :
                /\ e \in initials(cursor) <=>
                      \E i \in DOMAIN process.ps : e \in initials(root(process.ps[i]))
                /\ can_perform(cursor, e) <=>
                      \E i \in DOMAIN process.ps : can_perform(root(process.ps[i]), e)

\* After the tau of a choice between branches with different initials.
C11_Witness ==
    /\ process.op = "InternalChoice"
    /\ before = root(process)
    /\ event = tau
    /\ cursor # Panic
    /\ cursor.state = "AfterTau"
    /\ Len(process.ps) >= 2
    /\ \E i, j \in DOMAIN process.ps :
          /\ initials(root(process.ps[i])) \ initials(root(process.ps[j])) # {}
          /\ initials(root(process.ps[j])) \ initials(root(process.ps[i])) # {}

\* C12: the maximal traces of a replicated internal choice are the sum of the
\* maximal traces of its branches; the resolving tau is in no trace.
C12_TracesOfInternalChoice ==
    (AtRoot /\ process.op = "InternalChoice") =>
        /\ maximal_finite_traces(cursor) =
              MaximalTraces_sum([i \in DOMAIN process.ps |->
                                   maximal_finite_traces(root(process.ps[i]))])
        /\ \A t \in maximal_finite_traces(cursor) : tau \notin Range(t)

\* Three branches with two different non-empty maximal traces.
C12_Witness ==
    /\ AtRoot
    /\ process.op = "InternalChoice"
    /\ Len(process.ps) >= 3
    /\ \E t, u \in maximal_finite_traces(cursor) :
          t # u /\ Len(t) > 0 /\ Len(u) > 0

\* a is a prefix of b (a = b included).
IsPrefix(a, b) ==
    /\ Len(a) <= Len(b)
    /\ \A i \in 1..Len(a) : a[i] = b[i]

IsProperPrefix(a, b) == IsPrefix(a, b) /\ a # b

\* C13: after MaximalTraces::new() and any sequence of insert, +, sum or
\* collect, and in every result of maximal_finite_traces, no member of the
\* set is a proper prefix of another member. The sets that map returns are
\* among the states checked.
C13_NoMemberIsAProperPrefix ==
    \A a, b \in traces : ~IsProperPrefix(a, b)

\* An insert of a trace that extends a member, into a set that keeps another
\* member.
C13_Witness ==
    /\ call.op = "insert"
    /\ \E x \in call.self : IsProperPrefix(x, call.trace)
    /\ call.trace \in traces
    /\ Cardinality(traces) >= 2

\* C14: insert(t) leaves the set unchanged when t is a prefix of (or equal
\* to) a member; otherwise it removes every member that is a proper prefix of
\* t, the empty trace included, adds t and keeps every other member.
C14_InsertFrame ==
    call.op = "insert" =>
        IF \E x \in call.self : IsPrefix(call.trace, x)
        THEN traces = call.self
        ELSE traces =
                {x \in call.self : ~IsProperPrefix(x, call.trace)} \cup {call.trace}

\* An insert that removes a non-empty proper prefix and keeps another member.
C14_Witness ==
    /\ call.op = "insert"
    /\ \E x \in call.self :
          IsProperPrefix(x, call.trace) /\ Len(x) > 0 /\ x \notin traces
    /\ \E y \in call.self : y \in traces
    /\ call.trace \in traces

\* C15: no trace returned by maximal_finite_traces contains tau; tick is
\* recorded like any other event.
C15_NoTauInTraces ==
    call.op = "maximal_finite_traces" =>
        /\ \A t \in traces : tau \notin Range(t)
        /\ (/\ call.process.op = "SequentialComposition"
            /\ call.process.p = skip
            /\ call.process.q = skip) => traces = {<<tick>>}

\* The traces of a process that starts with a tau and can then tick.
C15_Witness ==
    /\ call.op = "maximal_finite_traces"
    /\ tau \in initials(root(call.process))
    /\ \E t \in traces : tick \in Range(t)
    /\ \E t \in traces : \E i \in DOMAIN t : t[i] \in Nameable

\* No cursor occurs twice on the current path of the traversal.
DistinctOnPath ==
    \A i, j \in DOMAIN frames : i # j => frames[i].cursor # frames[j].cursor

\* C16: maximal_finite_traces terminates for every cursor with finitely many
\* reachable states, cycles and tau-loops included: the cursors on the
\* current path are distinct, and the traversal eventually returns.
C16_TraversalTerminates ==
    /\ [](DistinctOnPath /\ Len(frames) < MaxDepth)
    /\ <>(call.op = "returned")

\* The traversal has returned for a cursor with a tau-loop and a visible
\* event, with the result the recursive definition gives.
C16_Witness ==
    /\ call.op = "returned"
    /\ cursor.kind = "Table"
    /\ cursor.table[1][tau] = 1
    /\ cursor.table[1][NumberedEvent(0)] = 2
    /\ cursor.table[2][NumberedEvent(0)] = 1
    /\ traces = maximal_finite_traces(cursor)
    /\ traces = {<<NumberedEvent(0), NumberedEvent(0)>>}

\* The cursor after performing a trace, or Panic when some event of the
\* trace is not performable in its turn.
RECURSIVE AfterTrace(_, _)
AfterTrace(c, trace) ==
    IF Len(trace) = 0 THEN c
    ELSE LET front == AfterTrace(c, SubSeq(trace, 1, Len(trace) - 1))
             last == trace[Len(trace)]
         IN  IF front = Panic THEN Panic
             ELSE IF ~can_perform(front, last) THEN Panic
             ELSE perform(front, last)

\* C17: satisfies_trace replays the trace linearly.  It returns true iff
\* every event of the trace is performable in its turn (always, for the empty
\* trace); it returns false at the first event that is not performable,
\* having performed exactly the events before it.
C17_SatisfiesTraceIsLinearReplay ==
    call.op = "satisfies_trace" =>
        LET start == root(process)
            trace == call.trace
            done == SubSeq(trace, 1, call.pos - 1)
        IN  /\ cursor = AfterTrace(start, done)
            /\ cursor # Panic
            /\ call.result = "true" =>
                  /\ call.pos = Len(trace) + 1
                  /\ AfterTrace(start, trace) # Panic
                  /\ satisfies_trace(start, trace)
            /\ call.result = "false" =>
                  /\ call.pos <= Len(trace)
                  /\ ~can_perform(cursor, trace[call.pos])
                  /\ AfterTrace(start, trace) = Panic
                  /\ ~satisfies_trace(start, trace)
            /\ (Len(trace) = 0 /\ call.result # "running") => call.result = "true"

\* A replay that performed the first event of its trace and returned false
\* at the second.
C17_Witness ==
    /\ call.op = "satisfies_trace"
    /\ call.result = "false"
    /\ call.pos = 2
    /\ Len(call.trace) >= 2
    /\ before = root(process)
    /\ event = call.trace[1]

\* How many times x occurs in the sequence s.
Count(x, s) == Cardinality({i \in DOMAIN s : s[i] = x})

\* C18: the after-processes of an external choice.  For a visible event they
\* are all the after-processes of all the branches; for tau there is one for
\* each branch and each tau-after of that branch: the choice with that branch
\* replaced and every other branch unchanged.
C18_AftersOfExternalChoice ==
    (call.op = "afters" /\ process.op = "ExternalChoice") =>
        LET ps == process.ps
            e == call.initial
            branch(i) == afters(ps[i], e)
            each == UNION {{<<i, k>> : k \in DOMAIN branch(i)} : i \in DOMAIN ps}
        IN  /\ Len(call.afters) = Cardinality(each)
            /\ e # tau =>
                  \A i \in DOMAIN ps : \A k \in DOMAIN branch(i) :
                      Count(branch(i)[k], call.afters) =
                          Cardinality({jl \in each :
                                          branch(jl[1])[jl[2]] = branch(i)[k]})
            /\ e = tau =>
                  /\ \A i \in DOMAIN ps : \A k \in DOMAIN branch(i) :
                        \E n \in DOMAIN call.afters :
                            /\ call.afters[n].op = "ExternalChoice"
                            /\ DOMAIN call.afters[n].ps = DOMAIN ps
                            /\ call.afters[n].ps[i] = branch(i)[k]
                            /\ \A j \in DOMAIN ps \ {i} : call.afters[n].ps[j] = ps[j]
                  /\ \A n \in DOMAIN call.afters :
                        \E i \in DOMAIN ps : \E k \in DOMAIN branch(i) :
                            call.afters[n] =
                                replicated_external_choice([ps EXCEPT ![i] = branch(i)[k]])
            /\ \A a \in TestEvent : \A P, Q \in Leaves :
                  (process = external_choice(prefix(a, P), prefix(a, Q)) /\ e = a /\ a # tau)
                      => call.afters = <<P, Q>>

\* The tau-afters of a choice in which two branches can perform tau and a
\* third cannot.
C18_Witness ==
    /\ call.op = "afters"
    /\ process.op = "ExternalChoice"
    /\ call.initial = tau
    /\ Len(process.ps) = 3
    /\ Len(call.afters) = 2
    /\ call.afters[1] # call.afters[2]
    /\ \E i \in DOMAIN process.ps : afters(process.ps[i], tau) = <<>>

\* C19: for every process built from Stop, Skip, Prefix and external choice
\* and every event e, e is among the initials iff afters for e yields at
\* least one process.
C19_InitialsAftersConsistent ==
    call.op = "afters" =>
        (call.initial \in CSP_initials(process) <=> Len(call.afters) > 0)

\* A choice whose branches offer tick, tau and a numbered event.
C19_Witness ==
    /\ call.op = "afters"
    /\ process.op = "ExternalChoice"
    /\ {tick, tau} \subseteq CSP_initials(process)
    /\ CSP_initials(process) \cap Nameable # {}
    /\ call.initial = tick
    /\ Len(call.afters) > 0

\* C20: the cursor of a -> P starts in BeforeInitial, where a is the only
\* event it offers and the only one it can perform, with P's cursor at
\* P.root(); performing a moves it to AfterInitial and leaves P's cursor
\* untouched; from then on its events and can_perform are those of P's
\* cursor and perform is P's cursor's perform (a panic of P's cursor
\* included); performing any other event in BeforeInitial panics, so P's
\* cursor is never advanced.
C20_PrefixCursor ==
    process.op = "Prefix" =>
        /\ AtRoot =>
              /\ cursor.state = "BeforeInitial"
              /\ cursor.after = root(process.after)
              /\ events(cursor) = {process.initial}
              /\ \A e \in TestEvent : can_perform(cursor, e) <=> e = process.initial
        /\ (~AtRoot /\ before.state = "BeforeInitial") =>
              IF event = process.initial
              THEN /\ willing
                   /\ cursor.state = "AfterInitial"
                   /\ cursor.after = root(process.after)
              ELSE /\ ~willing
                   /\ cursor = Panic
        /\ (~AtRoot /\ before.state = "AfterInitial") =>
              /\ willing <=> can_perform(before.after, event)
              /\ IF perform(before.after, event) = Panic
                 THEN cursor = Panic
                 ELSE /\ cursor.state = "AfterInitial"
                      /\ cursor.after = perform(before.after, event)
        /\ (cursor # Panic /\ cursor.state = "AfterInitial") =>
              /\ events(cursor) = events(cursor.after)
              /\ \A e \in TestEvent :
                    can_perform(cursor, e) <=> can_perform(cursor.after, e)

\* A prefix of an internal choice has performed its initial event and the
\* choice's tau, and now offers what the chosen branch offers.
C20_Witness ==
    /\ process.op = "Prefix"
    /\ process.after.op = "InternalChoice"
    /\ ~AtRoot
    /\ before.state = "AfterInitial"
    /\ event = tau
    /\ cursor # Panic
    /\ cursor.after # root(process.after)
    /\ events(cursor) # {}

\* C21: for a numbered event a and any process P, the maximal finite traces
\* of prefix(a, P) are exactly the traces of P with a put in front, and
\* transitions(prefix(a, P)) has the single key a, mapped to the list [P].
C21_PrefixTracesAndTransitions ==
    (process.op = "Prefix" /\ process.initial \in Nameable) =>
        /\ call.op = "maximal_finite_traces" =>
              traces = {<<process.initial>> \o t :
                           t \in maximal_finite_traces(root(process.after))}
        /\ call.op = "transitions" =>
              /\ DOMAIN call.transitions = {process.initial}
              /\ call.transitions[process.initial] = <<process.after>>

\* The traces of a prefix of a process that has two different maximal traces.
C21_Witness ==
    /\ process.op = "Prefix"
    /\ process.initial \in Nameable
    /\ call.op = "maximal_finite_traces"
    /\ Cardinality(traces) = 2
    /\ \A t \in traces : Len(t) = 2 /\ t[1] = process.initial

\* C22: Skip's root cursor offers and can perform exactly tick; performing
\* tick moves it to AfterTick, where it offers nothing, can perform nothing
\* and panics on every event, as Stop does; any other event at the root
\* panics; transitions(Skip) maps tick, and only tick, to [Stop]; the
\* maximal finite traces of Skip are {[tick]}.
C22_Skip ==
    process = skip =>
        /\ AtRoot =>
              /\ cursor = [kind |-> "Skip", state |-> "BeforeTick"]
              /\ events(cursor) = {tick}
              /\ \A e \in TestEvent : can_perform(cursor, e) <=> e = tick
        /\ (~AtRoot /\ before.state = "BeforeTick") =>
              IF event = tick
              THEN /\ willing
                   /\ cursor = [kind |-> "Skip", state |-> "AfterTick"]
                   /\ events(cursor) = events(Stop_root)
                   /\ \A e \in TestEvent :
                         /\ ~can_perform(cursor, e)
                         /\ perform(cursor, e) = Panic
              ELSE ~willing /\ cursor = Panic
        /\ (~AtRoot /\ before.state = "AfterTick") => (~willing /\ cursor = Panic)
        /\ call.op = "transitions" =>
              /\ DOMAIN call.transitions = {tick}
              /\ call.transitions[tick] = <<stop>>
        /\ call.op = "maximal_finite_traces" => traces = {<<tick>>}

\* Skip has performed tick and was then asked to perform one more event.
C22_Witness ==
    /\ process = skip
    /\ ~AtRoot
    /\ before.state = "AfterTick"
    /\ cursor = Panic

\* C23: Stop offers nothing: its cursor's events are empty, can_perform is
\* false for every event, perform panics for every event, transitions(Stop)
\* has no key and the maximal finite traces of Stop are {[]}.
C23_Stop ==
    process = stop =>
        /\ AtRoot =>
              /\ cursor = Stop_root
              /\ events(cursor) = {}
              /\ CSP_initials(process) = {}
              /\ \A e \in TestEvent : ~can_perform(cursor, e)
        /\ ~AtRoot => (~willing /\ cursor = Panic)
        /\ call.op = "transitions" => DOMAIN call.transitions = {}
        /\ call.op = "afters" => call.afters = <<>>
        /\ call.op = "maximal_finite_traces" => traces = {<<>>}

\* Stop was asked to perform an event.
C23_Witness ==
    /\ process = stop
    /\ ~AtRoot
    /\ event \in Nameable
    /\ cursor = Panic

\* C24: the external choice over no process at all is a process; as for
\* Stop, its root offers no event, can perform no event, its initials and
\* transitions are empty and its maximal finite traces are {[]}.
C24_EmptyExternalChoice ==
    process = replicated_external_choice(<<>>) =>
        /\ process # Panic
        /\ AtRoot =>
              /\ events(cursor) = events(Stop_root)
              /\ \A e \in TestEvent :
                    can_perform(cursor, e) = can_perform(Stop_root, e)
        /\ ~AtRoot => ~willing
        /\ call.op = "initials" => call.initials = {}
        /\ call.op = "transitions" => DOMAIN call.transitions = {}
        /\ call.op = "maximal_finite_traces" =>
              traces = maximal_finite_traces(Stop_root)

\* The empty choice has been traversed.
C24_Witness ==
    /\ process = replicated_external_choice(<<>>)
    /\ call.op = "maximal_finite_traces"
    /\ traces = {<<>>}

\* C25: replicated_internal_choice panics on an empty collection, so that no
\* process and no cursor exist afterwards, and builds the internal choice
\* over the given processes from every non-empty collection.
C25_EmptyInternalChoicePanics ==
    call.op = "replicated_internal_choice" =>
        IF Len(call.ps) = 0
        THEN process = Panic /\ cursor = Panic
        ELSE /\ process = [op |-> "InternalChoice", ps |-> call.ps]
             /\ cursor # Panic
             /\ events(cursor) = {tau}

\* The constructor was called with no process.
C25_Witness ==
    /\ call.op = "replicated_internal_choice"
    /\ call.ps = <<>>
    /\ process = Panic

\* C26: the cursors implement the documented rules.  While a trace is
\* replayed on the root cursor, the events replayed so far label a path of
\* the transition system of the rules, and the cursor offers exactly the
\* events that label a transition of some process reached along such a
\* path; so satisfies_trace returns true iff the whole trace labels a path.
C26_CursorsImplementTheRules ==
    call.op = "satisfies_trace" =>
        LET done == SubSeq(call.trace, 1, call.pos - 1)
            reached == rules_after_trace(process, done)
        IN  /\ reached # {}
            /\ events(cursor) = rules_initials(reached)
            /\ call.result = "true" => rules_after_trace(process, call.trace) # {}
            /\ call.result = "false" => rules_after_trace(process, call.trace) = {}

\* C27: whenever a sequential-composition cursor that may still be behaving
\* like P performs tau while its P cursor can perform tick, a Q path at Q's
\* root is live afterwards: every initial event of Q's root cursor is
\* performable by the composed cursor.
C27_FreshQOnEveryHiddenTick ==
    (/\ process.op = "SequentialComposition"
     /\ ~AtRoot
     /\ before.state \in {"BeforeTick", "Shrug"}
     /\ event = tau
     /\ can_perform(before.p, tick)) =>
        /\ cursor # Panic
        /\ \A e \in events(root(process.q)) : can_perform(cursor, e)

\* C28: after a tau performed by an unresolved external-choice cursor the
\* cursor is still unresolved and tau_count has grown by one; with depth(B)
\* the number of tau's branch B has been able to perform, the state of B
\* after k tau's is active iff k >= tau_count minus the sum of the depths
\* of the other branches, for every branch of depth at least 1; the state
\* of a branch of depth 0 stays active.
C28_TauPruning ==
    (/\ ~AtRoot
     /\ before.kind = "ExternalChoice"
     /\ before.state = "Unresolved"
     /\ event = tau
     /\ willing) =>
        /\ cursor # Panic
        /\ cursor.state = "Unresolved"
        /\ cursor.tau_count = before.tau_count + 1
        /\ \A i \in DOMAIN cursor.subcursors :
              LET taus == cursor.subcursors[i]
                  depth == Len(taus) - 1
                  others == total_depth(cursor.subcursors, Len(cursor.subcursors)) - depth
              IN  /\ depth <= cursor.tau_count
                  /\ depth = 0 => taus[1] # None
                  /\ depth >= 1 =>
                        \A k \in 0..depth :
                            (taus[k + 1] # None) <=> (k >= cursor.tau_count - others)

\* Two tau's have been performed; one branch could perform both, another
\* only the first: the first branch must have performed at least one of
\* them, so its state before any tau is pruned, while every state of the
\* second branch has survived.
C28_Witness ==
    /\ ~AtRoot
    /\ before.kind = "ExternalChoice"
    /\ before.state = "Unresolved"
    /\ event = tau
    /\ willing
    /\ cursor # Panic
    /\ cursor.tau_count = 2
    /\ \E i, j \in DOMAIN cursor.subcursors :
          /\ Len(cursor.subcursors[i]) = 3
          /\ Len(cursor.subcursors[j]) = 2
          /\ cursor.subcursors[i][1] = None
          /\ cursor.subcursors[i][2] # None
          /\ cursor.subcursors[j][1] # None

\* The indices a Possibilities value holds in its possibilities.
Members(self) ==
    UNION {Range(self.possibilities[n]) : n \in DOMAIN self.possibilities}

\* C29 as stated: every index held by a possibility refers to an allocated
\* subcursor that is activated.
C29_IndicesAllocatedAndActivated ==
    \A idx \in Members(cursor) :
        /\ idx \in DOMAIN cursor.subcursors
        /\ cursor.activated[idx]

\* C29 as amended: every index held by a possibility refers to an allocated
\* subcursor, and that subcursor is activated as long as perform_all has not
\* been called; the possibilities never lose their subprocesses and the
\* activation flags cover exactly the allocated subcursors.
C29_IndicesAllocated ==
    /\ DOMAIN cursor.activated = DOMAIN cursor.subcursors
    /\ \A idx \in Members(cursor) :
          /\ idx \in DOMAIN cursor.subcursors
          /\ ~call.all => cursor.activated[idx]
    /\ \A n \in DOMAIN cursor.possibilities :
          Len(cursor.possibilities[n]) = Len(cursor.possibilities[1])

\* Two calls of perform_piecewise have split the possibilities twice: there
\* are cloned subcursors, and the possibilities refer to them.
C29_Witness ==
    /\ call.op = "perform_piecewise"
    /\ call.count >= 2
    /\ ~call.all
    /\ Len(cursor.possibilities) >= 2
    /\ Len(cursor.subcursors) > Len(before.subcursors)
    /\ Len(cursor.subcursors) \in Members(cursor)

\* C30: an event is performable by a Possibilities value, and is among its
\* events, iff some activated subcursor that is a member of some current
\* possibility can perform it.
C30_PerformableIffSomeMemberCan ==
    \A e \in TestEvent :
        LET some_member_can ==
                \E idx \in Members(cursor) :
                    /\ cursor.activated[idx]
                    /\ can_perform(cursor.subcursors[idx], e)
        IN  /\ Possibilities_can_perform(cursor, e) <=> some_member_can
            /\ e \in Possibilities_events(cursor) <=> some_member_can

\* The subprocesses of a Possibilities value that perform e in a call: the
\* activated ones that can.
Eligible(self, e) ==
    {idx \in DOMAIN self.subcursors :
        self.activated[idx] /\ can_perform(self.subcursors[idx], e)}

\* The cursor states a possibility stands for.
States(self, possibility) ==
    [k \in DOMAIN possibility |-> self.subcursors[possibility[k]]]

\* The positions of a possibility whose member performs e.
EligiblePositions(self, possibility, e) ==
    {k \in DOMAIN possibility : possibility[k] \in Eligible(self, e)}

\* The sum of a sequence of numbers.
RECURSIVE SumOf(_)
SumOf(s) == IF Len(s) = 0 THEN 0 ELSE s[1] + SumOf(Tail(s))

\* C31: perform_piecewise(e) rebuilds the possibilities so that an old
\* possibility without a member that performs e is dropped, and every other
\* old possibility yields, for each of its members that performs e, exactly
\* one new possibility whose states are the old ones with that member
\* advanced by e and every other member in its before state; duplicates are
\* kept, so the new count is the sum of the eligible-member counts.
C31_PiecewiseRebuildsPossibilities ==
    call.op = "perform_piecewise" =>
        LET advanced(possibility) ==
                LET ks == Ascending(EligiblePositions(before, possibility, event))
                    old == States(before, possibility)
                IN  [m \in DOMAIN ks |->
                        [old EXCEPT ![ks[m]] = perform(old[ks[m]], event)]]
            expected ==
                Flatten([n \in DOMAIN before.possibilities |->
                            advanced(before.possibilities[n])])
            sizes == [n \in DOMAIN before.possibilities |->
                        Cardinality(EligiblePositions(
                            before, before.possibilities[n], event))]
        IN  /\ [n \in DOMAIN cursor.possibilities |->
                    States(cursor, cursor.possibilities[n])] = expected
            /\ Len(cursor.possibilities) = SumOf(sizes)

\* A call of perform_piecewise has dropped one possibility and advanced a
\* member of another, after an earlier call had split a possibility in two.
C31_Witness ==
    /\ call.op = "perform_piecewise"
    /\ Len(before.possibilities) >= 2
    /\ Len(before.subcursors) > MaxSubcursors - 1
    /\ \E n \in DOMAIN before.possibilities :
          EligiblePositions(before, before.possibilities[n], event) = {}
    /\ \E n \in DOMAIN before.possibilities :
          EligiblePositions(before, before.possibilities[n], event) # {}
    /\ Len(cursor.possibilities) >= 1
    /\ Len(cursor.possibilities) < Len(before.possibilities)

\* C32: perform_all(e) lets every activated subcursor attempt e on its own:
\* one that can perform e moves to its state after e and stays activated, one
\* that cannot is deactivated and keeps its state, one that was deactivated
\* already is left as it was, and the call does not fail, whether or not any
\* subcursor can perform e.  The possibilities are not touched.
C32_PerformAll ==
    call.op = "perform_all" =>
        /\ cursor # Panic
        /\ DOMAIN cursor.subcursors = DOMAIN before.subcursors
        /\ DOMAIN cursor.activated = DOMAIN before.activated
        /\ cursor.possibilities = before.possibilities
        /\ \A idx \in DOMAIN before.subcursors :
              IF idx \in Eligible(before, event)
              THEN /\ cursor.subcursors[idx] = perform(before.subcursors[idx], event)
                   /\ cursor.activated[idx]
              ELSE /\ cursor.subcursors[idx] = before.subcursors[idx]
                   /\ ~cursor.activated[idx]

\* One call of perform_all has advanced a subcursor, deactivated another and
\* left alone one that an earlier call had deactivated.
C32_Witness ==
    /\ call.op = "perform_all"
    /\ \E i, j, k \in DOMAIN before.subcursors :
          /\ i \in Eligible(before, event)
          /\ cursor.subcursors[i] # before.subcursors[i]
          /\ cursor.activated[i]
          /\ before.activated[j] /\ ~cursor.activated[j]
          /\ ~before.activated[k] /\ ~cursor.activated[k]
          /\ cursor.subcursors[k] = before.subcursors[k]

\* The members of a set of traces that are not a proper prefix of another.
PrefixMaximal(S) == {t \in S : ~\E u \in S : IsProperPrefix(t, u)}

\* The traces at the ends of the depth-first paths from cursor c: a path ends
\* at a cursor without initials and at the first cursor that is already on
\* the path; tau adds nothing to the trace.
RECURSIVE PathEnds(_, _, _)
PathEnds(c, path, trace) ==
    IF c \in path \/ events(c) = {} THEN {trace}
    ELSE UNION {PathEnds(perform(c, e), path \cup {c},
                         IF e = tau THEN trace ELSE Append(trace, e)) :
                    e \in events(c)}

\* C33: maximal_finite_traces(cursor) is exactly the prefix-maximal set of
\* the tau-free traces of the depth-first paths from the cursor, a path ending
\* at a cursor without initials or at the first cursor already on the current
\* path; traces are recorded at these ends only, and a branch is not explored
\* beyond its end.
C33_TracesOfDepthFirstPaths ==
    /\ traces \subseteq PathEnds(cursor, {}, <<>>) \cup {<<>>}
    /\ call.op = "returned" => traces = PrefixMaximal(PathEnds(cursor, {}, <<>>))
    /\ \A i \in DOMAIN frames :
          /\ events(frames[i].cursor) # {}
          /\ \A j \in 1..(i - 1) : frames[j].cursor # frames[i].cursor

\* The traversal has returned for a cursor whose paths end in a cycle (a
\* tau-loop, giving the empty trace) and in a state without initials (giving
\* the trace that subsumes it).
C33_Witness ==
    /\ call.op = "returned"
    /\ cursor.kind = "Table"
    /\ cursor.table[1][tau] = 1
    /\ cursor.table[1][NumberedEvent(0)] = 2
    /\ \A e \in GraphEvent : cursor.table[2][e] = 0
    /\ PathEnds(cursor, {}, <<>>) = {<<>>, <<NumberedEvent(0)>>}
    /\ traces = {<<NumberedEvent(0)>>}

\* C34: when an internal-choice cursor in state AfterTau performs an event,
\* every activated branch that cannot perform it is deactivated, no branch
\* becomes activated, and the subcursor of a branch that is or becomes
\* deactivated is not changed.  So over any sequence of performs the set of
\* activated branches only shrinks and a deactivated branch stays as it was.
C34_DeactivationIsPermanent ==
    (/\ before # None
     /\ before.kind = "InternalChoice"
     /\ before.state = "AfterTau"
     /\ cursor # Panic) =>
        /\ cursor.state = "AfterTau"
        /\ DOMAIN cursor.subcursors = DOMAIN before.subcursors
        /\ activated_subcursors(cursor) \subseteq activated_subcursors(before)
        /\ \A i \in DOMAIN before.subcursors :
              /\ (before.activated[i] /\ ~can_perform(before.subcursors[i], event))
                    => ~cursor.activated[i]
              /\ ~cursor.activated[i]
                    => cursor.subcursors[i] = before.subcursors[i]

\* A branch deactivated by an earlier event could perform the current one,
\* which another branch performs: the deactivated branch stays deactivated
\* and unchanged.
C34_Witness ==
    /\ before # None
    /\ before.kind = "InternalChoice"
    /\ before.state = "AfterTau"
    /\ cursor # Panic
    /\ \E i, j \in DOMAIN before.subcursors :
          /\ ~before.activated[i]
          /\ can_perform(before.subcursors[i], event)
          /\ ~cursor.activated[i]
          /\ cursor.subcursors[i] = before.subcursors[i]
          /\ before.activated[j]
          /\ cursor.activated[j]
          /\ cursor.subcursors[j] # before.subcursors[j]

\* C35 as stated: the transitions of P ; Q on a set of events hold <<tau, Q>>
\* iff the set has tau and P has a tick transition, whether or not P has tau
\* transitions, and hold <<e, P' ; Q>> for every transition <<e, P'>> of P on
\* the events of the set other than tick.
C35_SequentialCompositionTransitions ==
    (call.op = "transitions" /\ process.op = "SequentialComposition") =>
        LET yielded == Range(call.transitions)
            of_p == Range(CSP_transitions(process.p, call.events \ {tick}))
        IN  /\ <<{tau}, process.q>> \in yielded
                <=> (/\ tau \in call.events
                     /\ CSP_transitions(process.p, {tick}) # <<>>)
            /\ \A t \in of_p :
                  <<t[1], sequential_composition(t[2], process.q)>> \in yielded

\* The order of the states of a sequential-composition cursor.
StateRank(state) ==
    CASE state = "BeforeTick" -> 0
      [] state = "Shrug" -> 1
      [] state = "AfterTick" -> 2

\* C36: a perform moves the state of a sequential-composition cursor forward
\* only (BeforeTick, then Shrug, then AfterTick); in state AfterTick the
\* cursor of P is not changed any more; and a Q path that has been
\* deactivated stays deactivated.
C36_StateMovesForward ==
    (/\ before # None
     /\ before.kind = "SequentialComposition"
     /\ cursor # Panic) =>
        /\ StateRank(cursor.state) >= StateRank(before.state)
        /\ before.state = "AfterTick" => cursor.p = before.p
        /\ DOMAIN cursor.qs = DOMAIN before.qs
        /\ \A i \in DOMAIN before.qs : before.qs[i] = None => cursor.qs[i] = None

\* After the tick, Q performs an event that the cursor of P could perform as
\* well: P's cursor is left as it was.
C36_Witness ==
    /\ before # None
    /\ before.kind = "SequentialComposition"
    /\ before.state = "AfterTick"
    /\ cursor # Panic
    /\ can_perform(before.p, event)
    /\ cursor.p = before.p
    /\ cursor.qs # before.qs
    /\ None \notin Range(cursor.qs)

\* The cursors reachable from the cursors of S by tau's.
RECURSIVE TauReachable(_)
TauReachable(S) ==
    LET more == S \cup {perform(c, tau) : c \in {m \in S : can_perform(m, tau)}}
    IN  IF more = S THEN S ELSE TauReachable(more)

\* C37: prenormalization preserves traces.  The maximal finite traces of the
\* root of prenormalize(p) are those of the root of p; the prenormalized
\* cursor holds the tau-closure of the current set of states: the closure of
\* {p.root()} at the root, and after perform(e) the closure of the states
\* after e of the members that can perform e.
C37_PrenormalizationPreservesTraces ==
    /\ call.op = "maximal_finite_traces" =>
          traces = maximal_finite_traces(root(process))
    /\ cursor # Panic =>
          IF before = None
          THEN cursor.tau_closed = TauReachable({root(process)})
          ELSE cursor.tau_closed =
                  TauReachable({perform(m, event) :
                                  m \in {x \in before.tau_closed : can_perform(x, event)}})

\* The traces of a prenormalized process whose root has more than one state
\* and that has more than one maximal trace.
C37_Witness ==
    /\ call.op = "maximal_finite_traces"
    /\ cursor # Panic
    /\ Cardinality(cursor.tau_closed) >= 2
    /\ Cardinality(traces) >= 2
    /\ traces = maximal_finite_traces(root(process))

\* C38: the content of a MaximalTraces set does not depend on the order of
\* insertion.  After inserting traces one by one or set by set (+, sum), in
\* any order, the set is exactly the prefix-maximal part of the empty trace
\* and the inserted traces; it is never empty; + is commutative and
\* associative, and sum does not depend on the order of its operands.
C38_OrderOfInsertionIsIrrelevant ==
    /\ traces # {}
    /\ traces = PrefixMaximal({<<>>} \cup call.inserted)
    /\ call.op = "add" =>
          MaximalTraces_add(call.rhs, call.self) = traces
    /\ call.op = "sum" =>
          LET a == call.iter[1]
              b == call.iter[2]
              c == call.iter[3]
          IN  /\ MaximalTraces_add(MaximalTraces_add(a, b), c)
                    = MaximalTraces_add(a, MaximalTraces_add(b, c))
              /\ MaximalTraces_add(MaximalTraces_add(a, b), c) = traces
              /\ MaximalTraces_sum(<<c, a, b>>) = traces
              /\ MaximalTraces_sum(<<b, a, c>>) = traces

\* A trace is inserted after a member that extends it, into a set built from
\* at least three traces, two of which remain.
C38_Witness ==
    /\ call.op = "insert"
    /\ \E x \in call.self : IsProperPrefix(call.trace, x)
    /\ Len(call.trace) > 0
    /\ call.trace \notin call.self
    /\ Cardinality(call.inserted) >= 3
    /\ Cardinality(traces) >= 2

\* C39: in every Unresolved state of an external-choice cursor reached by
\* performable events, the total tau depth (the sum over the branches of the
\* number of recorded tau-successor states) is at least tau_count, every
\* branch keeps at least one recorded state (its deepest one is never
\* deactivated), and no branch records more than tau_count tau-successors.
C39_TauDepthCoversTauCount ==
    (/\ cursor # Panic
     /\ cursor.kind = "ExternalChoice"
     /\ cursor.state = "Unresolved"
     /\ willing) =>
        /\ total_depth(cursor.subcursors, Len(cursor.subcursors)) >= cursor.tau_count
        /\ \A i \in DOMAIN cursor.subcursors :
              /\ Len(cursor.subcursors[i]) >= 1
              /\ cursor.subcursors[i][Len(cursor.subcursors[i])] # None
              /\ Len(cursor.subcursors[i]) - 1 <= cursor.tau_count

\* Two tau's have been performed by a choice whose branches could have
\* performed three between them: one branch has recorded two tau-successors
\* and another one.
C39_Witness ==
    /\ cursor # Panic
    /\ cursor.kind = "ExternalChoice"
    /\ cursor.state = "Unresolved"
    /\ willing
    /\ event = tau
    /\ cursor.tau_count = 2
    /\ total_depth(cursor.subcursors, Len(cursor.subcursors)) > cursor.tau_count
    /\ \E i, j \in DOMAIN cursor.subcursors :
          /\ Len(cursor.subcursors[i]) = 3
          /\ Len(cursor.subcursors[j]) = 2

====
